---- MODULE Spec2Model ----
(***************************************************************************)
(* UnrealLibretro: the component (ULibretroCoreInstance), the path-keyed   *)
(* ordered file access chain (LastIOTask), and the background thread of    *)
(* LibretroContext::launch with its instance allocator.                    *)
(*                                                                         *)
(* Five groups of variables:                                               *)
(*  - the persistence side: components, runtimes with their task queues,   *)
(*    scheduled file operations, the chain map and the files;              *)
(*  - the allocation side: the global and per-core bit arrays, and the     *)
(*    threads that take and give back indices of func_wrap_table.          *)
(*  - the run side: one context followed statement by statement, from the  *)
(*    rendezvous with the sink through the timing loop to teardown;        *)
(*  - the callback side: what core_environment stores for the context, the *)
(*    frame time block of the loop, and the last call of audio_write.      *)
(*  - the pause side: the component's Paused, each runtime's pause state   *)
(*    and whether the editor is paused.                                    *)
(* SpecIO runs the first group and SpecQueue one component of it whose     *)
(* sink may be gone; SpecAlloc runs the second; SpecRun the third, and     *)
(* FairSpecRun adds that the context's thread keeps being scheduled;       *)
(* SpecEnv runs the fourth as the core sees it. FairSpecQueue is SpecQueue *)
(* with every thread scheduled, SpecBind is SpecAlloc with core_load taken *)
(* statement by statement. SpecChain runs components that are launched     *)
(* once with their threads, and FairSpecChain schedules every thread of    *)
(* it; SpecPause runs the game thread alone with the editor's delegates.   *)
(***************************************************************************)
EXTENDS Integers, Sequences, FiniteSets, TLC

\* ------------------------------------------------------------------ bounds
\* calls of the component's API (Launch, Shutdown, LoadState, SaveState, BeginDestroy,
\* Pause) and broadcasts of the editor's delegates
MaxCalls == 4

\* threads spawned by LibretroContext::launch in the allocation runs
MaxLaunches == 3

\* retro_run calls of the observed context, and ticks one retro_run may take
MaxFrames == 4
MaxStall == 5

Components == {"c1", "c2"}
Runtimes == 1..MaxCalls
Threads == 1..MaxLaunches
Cores == {"coreA", "coreB"}

MAX_INSTANCES == 100
MAX_INSTANCES_PER_CORE == 8 * 8
INDEX_NONE == -1
NoThread == 0
Identifiers == {"slotA", "slotB"}

NoStop == -1
\* 1 / l->av.timing.fps, in ticks
FrameInterval == 2
\* frames handed to audio_write by one retro_run, and room in the circular queue
AudioBatch == 1
AudioCapacity == 1

\* SDL_GetTicks() values seen, and invocations of the frame time callback
MaxTicks == 3
MaxFrameTimeCalls == 3

NoRuntime == 0
NoEvent == 0
NoFile == -1
NoData == -2

\* SRAMPath("Default") of the component and the .srm path of the runtime
\* thread name the save-memory file of the ROM; every component runs the same ROM.
SRAMPath == "sram"
SaveStatePath(Identifier) == Identifier
Paths == {SRAMPath} \cup {SaveStatePath(i) : i \in Identifiers}

VARIABLES
    CoreInstance,   \* component -> runtime or NoRuntime (TOptional<LibretroContext*>)
    destroyed,      \* component -> BeginDestroy has run
    LastIOTask,     \* path -> id of the most recently scheduled operation, or NoEvent
    ops,            \* sequence of the scheduled operations, in scheduling order
    nextRuntime,    \* number of runtimes launched so far
    rtpc,           \* runtime -> position of its thread
    running,        \* runtime -> run flag
    queue,          \* runtime -> task queue (operation ids)
    drainLeft,      \* runtime -> tasks of the current drain still to execute
    cbOp,           \* runtime -> the LoadSRAM operation its loaded callback holds
    mstate,         \* runtime -> module state (what serialize returns)
    sram,           \* runtime -> module save memory
    file,           \* path -> file content, or NoFile
    fileBy,         \* path -> id of the chained operation that wrote the content (history)
    stoppedBefore,  \* runtime -> runtimes already shut down when it was launched (history)
    calls           \* number of API calls so far

VARIABLES
    AllocatedInstances,         \* set bits of the global TBitArray
    PerCoreAllocatedInstances,  \* core -> set bits of its TBitArray
    others,                     \* core -> runtimes launched earlier and still running
    launched,                   \* number of threads spawned by LibretroContext::launch
    tpc,                        \* thread -> position in the lambda of launch
    tcore,                      \* thread -> the core path it was launched with
    InstanceNumber,             \* thread -> index in the global array, or INDEX_NONE
    CoreInstanceNumber,         \* thread -> index in its core's array, or INDEX_NONE
    callback_instance,          \* thread -> index of its entry of func_wrap_table
    func_wrap_table,            \* entry -> thread whose handlers are installed, or NoThread
    crashed                     \* a check() failed: the process is gone

\* the thread of one context l, statement by statement (SpecRun)
VARIABLES
    l_pc,           \* position of the thread between core_load and the release block
    l_running,      \* l->running
    sinkValid,      \* UnrealSoundBuffer.IsValid() && UnrealRenderTarget.IsValid()
    frames,         \* frames, the counter of the timing loop
    start,          \* start, the reference clock of the timing loop
    now,            \* FDateTime::Now(), in ticks
    sleep,          \* sleep, as computed after the last frame
    audioLeft,      \* audio frames the core still has to hand over in this retro_run
    QueuedAudio,    \* fill level of the circular queue read by the sound wave
    advanced,       \* number of retro_run calls so far (history)
    stopAt,         \* value of advanced when Shutdown was called, or NoStop (history)
    rendezvous,     \* outcome of GameThreadMediaResourceInitTask (history)
    invalidAtTest,  \* the sink was invalid when the current iteration began (history)
    teardownLog,    \* steps taken after the run loop, in order (history)
    lastDur,        \* ticks the last retro_run took (history)
    didReset,       \* the timing loop reset its clock after the last frame (history)
    prevReset       \* ... after the frame before (history)

\* what the callbacks of the context keep (SpecEnv), and the last audio_write
VARIABLES
    settings,                       \* keys present in the settings table
    g_video,                        \* tex_id set, pixfmt, hw set
    UsingOpenGL,                    \* UsingOpenGL
    runloop_frame_time,             \* callback registered, reference
    runloop_frame_time_last,        \* runloop_frame_time_last
    audio_callback,                 \* audio_callback.callback registered
    hw_render_context_negotiation,  \* the interface pointer is stored
    ticks,                          \* SDL_GetTicks(), milliseconds
    env_crashed,                    \* a Fatal log or checkNoEntry() ended the process
    env_call,                       \* last call of core_environment (history)
    frame_time_call,                \* last call of the frame time callback (history)
    audio_write_call                \* last call of audio_write (history)

\* the pause flag of the component and of its runtime (SpecPause)
VARIABLES
    Paused,         \* component -> Paused, the member of ULibretroCoreInstance
    rt_paused,      \* runtime -> paused by LibretroContext::Pause
    editor_paused,  \* the editor has sent PausePIE and not yet ResumePIE
    pause_arg,      \* component -> last value passed to Pause, if any (history)
    api_call        \* last call of the component's API or of an editor delegate (history)

iovars == <<CoreInstance, destroyed, LastIOTask, ops, nextRuntime, rtpc, running, queue,
            drainLeft, cbOp, mstate, sram, file, fileBy, 
            stoppedBefore, calls>>

avars == <<AllocatedInstances, PerCoreAllocatedInstances, others, launched, tpc, tcore,
           InstanceNumber, CoreInstanceNumber, callback_instance, func_wrap_table, crashed>>

rvars == <<l_pc, l_running, sinkValid, frames, start, now, sleep, audioLeft, QueuedAudio,
           advanced, stopAt, rendezvous, invalidAtTest, teardownLog, lastDur, didReset,
           prevReset>>

evars == <<settings, g_video, UsingOpenGL, runloop_frame_time, runloop_frame_time_last,
           audio_callback, hw_render_context_negotiation, ticks, env_crashed, env_call,
           frame_time_call>>

pvars == <<Paused, rt_paused, editor_paused, pause_arg, api_call>>

cvars == <<evars, audio_write_call, pvars>>

vars == <<iovars, avars, rvars, cvars>>

OpIds == 1..Len(ops)

\* ------------------------------------------------------- ordered file access

\* variants with a fault, used to see that the properties below depend on the chain
PredNotAwaited(o) == TRUE
PredStarted(o) == IF ops[o].pred = NoEvent THEN TRUE ELSE ops[ops[o].pred].st \in {"io", "done"}
AllEarlierCompleted(o) == \A e \in 1..(o - 1) : ops[e].st = "done"

\* if (LastIOOperation) WaitUntilTaskCompletes(LastIOOperation), and the prerequisite of
\* SaveStateToFileTask: the predecessor's completion event has fired, or there is none
PredCompleted(o) == IF ops[o].pred = NoEvent THEN TRUE ELSE ops[ops[o].pred].st = "done"

\* variant with a fault: the operation takes the event it has just stored as predecessor
NewOpChainedToItself(kind, path, r) ==
    [kind |-> kind, path |-> path, pred |-> Len(ops) + 1, rt |-> r,
     st |-> "scheduled", buf |-> NoData, got |-> NoData, failed |-> FALSE]

\* Replace(LastIOTask.FindOrAdd(FilePath), ThisIOOperation->GetCompletionEvent())
NewOp(kind, path, r) ==
    [kind |-> kind, path |-> path, pred |-> LastIOTask[path], rt |-> r,
     st |-> "scheduled", buf |-> NoData, got |-> NoData, failed |-> FALSE]

ChainNotUpdated(path) == LastIOTask

ScheduledOps(kind, path, r) == Append(ops, NewOp(kind, path, r))
ChainAfter(path) == [LastIOTask EXCEPT ![path] = Len(ops) + 1]

NeverPastStopping(r) == FALSE
\* EnqueueTask: dropped once the runtime has left its run loop
PastStopping(r) == rtpc[r] \in {"teardown", "unloaded"}

EnqueueTaskInFront(q, r, o) == [q EXCEPT ![r] = <<o>> \o @]
EnqueueTask(q, r, o) == IF PastStopping(r) THEN q ELSE [q EXCEPT ![r] = Append(@, o)]

\* LibretroContext::Shutdown: requests stop
ShutdownFlag(c) ==
    IF CoreInstance[c] # NoRuntime THEN [running EXCEPT ![CoreInstance[c]] = FALSE] ELSE running
\* the runtimes that have been asked to stop once Shutdown(c) has run
ShutdownSet(c) == {r \in Runtimes : rtpc[r] # "none" /\ (~running[r] \/ r = CoreInstance[c])}

\* ------------------------------------------------------------ the allocator

\* TBitArray::FindAndSetFirstZeroBit, the search: the bits are scanned upwards from 0
RECURSIVE ScanZeroBit(_, _, _)
ScanZeroBit(bits, i, size) ==
    IF i >= size THEN INDEX_NONE
    ELSE IF i \notin bits THEN i
    ELSE ScanZeroBit(bits, i + 1, size)

\* variants with a fault
FindLastZeroBit(bits, size) ==
    LET free == (0..(size - 1)) \ bits IN
    IF free = {} THEN INDEX_NONE ELSE CHOOSE i \in free : \A j \in free : j <= i
BitNotSet(bits, i) == bits
BitNotCleared(bits, i) == bits

FindFirstZeroBit(bits, size) == ScanZeroBit(bits, 0, size)

\* TBitArray::FindAndSetFirstZeroBit, the set: nothing is set when no zero bit was found
SetBit(bits, i) == IF i = INDEX_NONE THEN bits ELSE bits \cup {i}

\* TBitArray::operator[] = false
ClearBit(bits, i) == bits \ {i}

\* check(CoreInstanceNumber != INDEX_NONE || InstanceNumber != INDEX_NONE)
AllocationCheck(coreIndex, globalIndex) == coreIndex # INDEX_NONE \/ globalIndex # INDEX_NONE

\* "%d" of FString::Printf: the decimal digits of a positive number, most significant first
RECURSIVE Decimal(_)
Decimal(k) == IF k < 10 THEN <<k>> ELSE Append(Decimal(k \div 10), k % 10)

\* the file handed to core_load: the core itself, or for CoreInstanceNumber > 0 the copy
\* named base name, number, ".", extension; a path is <<base name, digits, extension>>
InstancedCorePath(core, coreIndex) ==
    IF coreIndex > 0 THEN <<core, Decimal(coreIndex), "dll">> ELSE <<core, <<>>, "dll">>

\* runtimes launched before the run starts and never torn down in it hold the lowest
\* indices: n of one core hold the core's bits 0..n-1, all of them the global bits below
\* their total
OthersOf(a, b) == [c \in Cores |-> IF c = "coreA" THEN a ELSE b]
OthersTotal(o) == o["coreA"] + o["coreB"]

AllocInitWith(o) ==
    /\ others = o
    /\ AllocatedInstances = 0..(OthersTotal(others) - 1)
    /\ PerCoreAllocatedInstances = [c \in Cores |-> 0..(others[c] - 1)]
    /\ launched = 0
    /\ tpc = [t \in Threads |-> "none"]
    /\ tcore = [t \in Threads |-> "coreA"]
    /\ InstanceNumber = [t \in Threads |-> 0]
    /\ CoreInstanceNumber = [t \in Threads |-> 0]
    /\ callback_instance = [t \in Threads |-> INDEX_NONE]
    /\ func_wrap_table = [s \in 0..(MAX_INSTANCES - 1) |-> NoThread]
    /\ crashed = FALSE

\* the pool is empty, or one core has a single index left, or both that and the global
\* array have
AllocInit ==
    \E o \in {OthersOf(0, 0),
               OthersOf(MAX_INSTANCES_PER_CORE - 1, 0),
               OthersOf(MAX_INSTANCES_PER_CORE - 1, MAX_INSTANCES - MAX_INSTANCES_PER_CORE)} :
        AllocInitWith(o)

\* LibretroContext(): the run flag is set; the thread has not started
RunningAtLaunch == TRUE

RunInit ==
    /\ l_pc = "load_game"
    /\ l_running = RunningAtLaunch
    /\ sinkValid = TRUE
    /\ frames = 0
    /\ start = 0
    /\ now = 0
    /\ sleep = 0
    /\ audioLeft = 0
    /\ QueuedAudio = 0
    /\ advanced = 0
    /\ stopAt = NoStop
    /\ rendezvous = "pending"
    /\ invalidAtTest = FALSE
    /\ teardownLog = <<>>
    /\ lastDur = 0
    /\ didReset = FALSE
    /\ prevReset = FALSE

\* the members of a new LibretroContext that the callbacks use
CallbackInit ==
    /\ settings = {}
    /\ g_video = [tex_id |-> FALSE, pixfmt |-> "0RGB1555", hw |-> FALSE]
    /\ UsingOpenGL = FALSE
    /\ runloop_frame_time = [callback |-> FALSE, reference |-> 0]
    /\ runloop_frame_time_last = 0
    /\ audio_callback = FALSE
    /\ hw_render_context_negotiation = FALSE
    /\ ticks = 0
    /\ env_crashed = FALSE
    /\ env_call = [count |-> 0, recognized |-> FALSE, ret |-> FALSE, changed |-> FALSE]
    /\ frame_time_call = [count |-> 0, usec |-> 0, at |-> 0, elapsed |-> 0, reference |-> 0]
    /\ audio_write_call = [count |-> 0, frames |-> 0, returned |-> 0, enqueued |-> 0,
                           running |-> TRUE]
    /\ Paused = [c \in Components |-> FALSE]
    /\ rt_paused = [r \in Runtimes |-> FALSE]
    /\ editor_paused = FALSE
    /\ pause_arg = [c \in Components |-> [called |-> FALSE, value |-> FALSE]]
    /\ api_call = [n |-> 0, c |-> "none", fn |-> "none", guarded |-> FALSE, arg |-> FALSE]

IOInit ==
    /\ CoreInstance = [c \in Components |-> NoRuntime]
    /\ destroyed = [c \in Components |-> FALSE]
    /\ LastIOTask = [p \in Paths |-> NoEvent]
    /\ ops = <<>>
    /\ nextRuntime = 0
    /\ rtpc = [r \in Runtimes |-> "none"]
    /\ running = [r \in Runtimes |-> FALSE]
    /\ queue = [r \in Runtimes |-> <<>>]
    /\ drainLeft = [r \in Runtimes |-> 0]
    /\ cbOp = [r \in Runtimes |-> NoEvent]
    /\ mstate = [r \in Runtimes |-> 10 * r]
    /\ sram = [r \in Runtimes |-> 100 + r]
    /\ file = [p \in Paths |-> NoFile]
    /\ fileBy = [p \in Paths |-> NoEvent]
    /\ stoppedBefore = [r \in Runtimes |-> {}]
    /\ calls = 0

\* ------------------------------------------------------------- game thread

\* a Launch that tests the files after it has made the LoadSRAM operation
LaunchValidatesLate(c) ==
    /\ ~destroyed[c]
    /\ calls < MaxCalls
    /\ calls' = calls + 1
    /\ running' = ShutdownFlag(c)
    /\ CoreInstance' = [CoreInstance EXCEPT ![c] = NoRuntime]
    /\ ops' = ScheduledOps("LoadSRAM", SRAMPath, NoRuntime)
    /\ LastIOTask' = ChainAfter(SRAMPath)
    /\ UNCHANGED <<destroyed, nextRuntime, rtpc, queue, drainLeft, cbOp,
                   mstate, sram, file, fileBy,  stoppedBefore>>
    /\ UNCHANGED <<avars, rvars, cvars>>

\* ULibretroCoreInstance::Launch, core or ROM file missing
LaunchInvalid(c) ==
    /\ ~destroyed[c]
    /\ calls < MaxCalls
    /\ calls' = calls + 1
    /\ running' = ShutdownFlag(c)
    /\ CoreInstance' = [CoreInstance EXCEPT ![c] = NoRuntime]
    /\ UNCHANGED <<destroyed, LastIOTask, ops, nextRuntime, rtpc, queue, drainLeft, cbOp,
                   mstate, sram, file, fileBy,  stoppedBefore>>
    /\ UNCHANGED <<avars, rvars, cvars>>

\* ULibretroCoreInstance::Launch, files present
Launch(c) ==
    /\ ~destroyed[c]
    /\ calls < MaxCalls
    /\ calls' = calls + 1
    /\ LET r == nextRuntime + 1 IN
        /\ nextRuntime' = r
        /\ stoppedBefore' = [stoppedBefore EXCEPT ![r] = ShutdownSet(c)]
        /\ ops' = ScheduledOps("LoadSRAM", SRAMPath, r)
        /\ LastIOTask' = ChainAfter(SRAMPath)
        /\ cbOp' = [cbOp EXCEPT ![r] = Len(ops) + 1]
        /\ running' = [ShutdownFlag(c) EXCEPT ![r] = TRUE]
        /\ rtpc' = [rtpc EXCEPT ![r] = "spawned"]
        /\ CoreInstance' = [CoreInstance EXCEPT ![c] = r]
    /\ UNCHANGED <<destroyed, queue, drainLeft, mstate, sram, file, fileBy>>
    /\ UNCHANGED <<avars, rvars, cvars>>

\* ULibretroCoreInstance::Shutdown
Shutdown(c) ==
    /\ ~destroyed[c]
    /\ calls < MaxCalls
    /\ calls' = calls + 1
    /\ CoreInstance[c] # NoRuntime
    /\ running' = ShutdownFlag(c)
    /\ CoreInstance' = [CoreInstance EXCEPT ![c] = NoRuntime]
    /\ UNCHANGED <<destroyed, LastIOTask, ops, nextRuntime, rtpc, queue, drainLeft, cbOp,
                   mstate, sram, file, fileBy,  stoppedBefore>>
    /\ UNCHANGED <<avars, rvars, cvars>>

\* ULibretroCoreInstance::LoadState
LoadState(c, Identifier) ==
    /\ ~destroyed[c]
    /\ CoreInstance[c] # NoRuntime
    /\ calls < MaxCalls
    /\ calls' = calls + 1
    /\ ops' = ScheduledOps("LoadState", SaveStatePath(Identifier), CoreInstance[c])
    /\ LastIOTask' = ChainAfter(SaveStatePath(Identifier))
    /\ queue' = EnqueueTask(queue, CoreInstance[c], Len(ops) + 1)
    /\ UNCHANGED <<CoreInstance, destroyed, nextRuntime, rtpc, running, drainLeft, cbOp,
                   mstate, sram, file, fileBy,  stoppedBefore>>
    /\ UNCHANGED <<avars, rvars, cvars>>

\* variant with a fault: serialize is called by SaveState itself, on the game thread
SaveStateOnCaller(c, Identifier) ==
    /\ ~destroyed[c]
    /\ CoreInstance[c] # NoRuntime
    /\ calls < MaxCalls
    /\ calls' = calls + 1
    /\ ops' = Append(ops, [NewOp("SaveState", SaveStatePath(Identifier), CoreInstance[c])
                              EXCEPT !.st = "unlocked", !.buf = mstate[CoreInstance[c]]])
    /\ LastIOTask' = ChainAfter(SaveStatePath(Identifier))
    /\ UNCHANGED <<CoreInstance, destroyed, nextRuntime, rtpc, running, queue, drainLeft,
                   cbOp, mstate, sram, file, fileBy,  stoppedBefore>>
    /\ UNCHANGED <<avars, rvars, cvars>>

\* ULibretroCoreInstance::SaveState
SaveState(c, Identifier) ==
    /\ ~destroyed[c]
    /\ CoreInstance[c] # NoRuntime
    /\ calls < MaxCalls
    /\ calls' = calls + 1
    /\ ops' = ScheduledOps("SaveState", SaveStatePath(Identifier), CoreInstance[c])
    /\ LastIOTask' = ChainAfter(SaveStatePath(Identifier))
    /\ queue' = EnqueueTask(queue, CoreInstance[c], Len(ops) + 1)
    /\ UNCHANGED <<CoreInstance, destroyed, nextRuntime, rtpc, running, drainLeft, cbOp,
                   mstate, sram, file, fileBy,  stoppedBefore>>
    /\ UNCHANGED <<avars, rvars, cvars>>

\* ULibretroCoreInstance::BeginDestroy
BeginDestroy(c) ==
    /\ ~destroyed[c]
    /\ calls < MaxCalls
    /\ calls' = calls + 1
    /\ destroyed' = [destroyed EXCEPT ![c] = TRUE]
    /\ IF CoreInstance[c] # NoRuntime
       THEN /\ ops' = ScheduledOps("SaveSRAM", SRAMPath, CoreInstance[c])
            /\ LastIOTask' = ChainAfter(SRAMPath)
            /\ queue' = EnqueueTask(queue, CoreInstance[c], Len(ops) + 1)
       ELSE UNCHANGED <<ops, LastIOTask, queue>>
    /\ running' = ShutdownFlag(c)
    /\ CoreInstance' = [CoreInstance EXCEPT ![c] = NoRuntime]
    /\ UNCHANGED <<nextRuntime, rtpc, drainLeft, cbOp, mstate, sram, file, fileBy,
                    stoppedBefore>>
    /\ UNCHANGED <<avars, rvars, cvars>>

\* ------------------------------------------------------- file access bodies

\* the IOOperation lambdas: what the access does to the module and the file
\* LoadSRAM (Launch) reads the file into save memory when it can be opened
\* LoadState reads the file and unserializes it; a missing file is ignored
\* SaveSRAM (BeginDestroy) writes save memory to the file
ReadNeverFails(o) == FALSE
\* IFileManager::CreateFileReader returns null, LoadFileToArray returns false
ReadFails(o) == file[ops[o].path] = NoFile

\* a snapshot that was not taken from this runtime's module: its length need not be
\* what libretro_api.serialize_size() of this runtime reports
SizeDiffers(r, data) == data # 10 * r

\* variant with a fault: a snapshot of another size is not handed to unserialize
FinishAccessChecksSize(r, o) ==
    LET k == ops[o].kind
        p == ops[o].path
        skip == k = "LoadState" /\ (ReadFails(o) \/ SizeDiffers(r, file[p])) IN
    /\ ops' = [ops EXCEPT ![o].st = "done",
                          ![o].failed = (k # "SaveSRAM" /\ ReadFails(o)),
                          ![o].got = IF k # "SaveSRAM" /\ ~ReadFails(o) /\ ~skip
                                     THEN file[p] ELSE NoData]
    /\ mstate' = IF k = "LoadState" /\ ~skip THEN [mstate EXCEPT ![r] = file[p]] ELSE mstate
    /\ sram' = IF k = "LoadSRAM" /\ ~ReadFails(o) THEN [sram EXCEPT ![r] = file[p]] ELSE sram
    /\ file' = IF k = "SaveSRAM" THEN [file EXCEPT ![p] = sram[r]] ELSE file
    /\ fileBy' = IF k = "SaveSRAM" THEN [fileBy EXCEPT ![p] = o] ELSE fileBy

\* variant with a fault: the completion event is fulfilled only after a successful access
FinishAccessUnlockOnSuccess(r, o) ==
    LET k == ops[o].kind
        p == ops[o].path
        fails == k # "SaveSRAM" /\ ReadFails(o) IN
    /\ ops' = [ops EXCEPT ![o].st = IF fails THEN "io" ELSE "done",
                          ![o].failed = fails,
                          ![o].got = IF k # "SaveSRAM" /\ ~fails THEN file[p] ELSE NoData]
    /\ mstate' = IF k = "LoadState" /\ ~fails THEN [mstate EXCEPT ![r] = file[p]] ELSE mstate
    /\ sram' = IF k = "LoadSRAM" /\ ~fails THEN [sram EXCEPT ![r] = file[p]] ELSE sram
    /\ file' = IF k = "SaveSRAM" THEN [file EXCEPT ![p] = sram[r]] ELSE file
    /\ fileBy' = IF k = "SaveSRAM" THEN [fileBy EXCEPT ![p] = o] ELSE fileBy

FinishAccess(r, o) ==
    LET k == ops[o].kind
        p == ops[o].path IN
    /\ ops' = [ops EXCEPT ![o].st = "done",
                          ![o].failed = (k # "SaveSRAM" /\ ReadFails(o)),
                          ![o].got = IF k # "SaveSRAM" /\ ~ReadFails(o) THEN file[p] ELSE NoData]
    /\ mstate' = IF k = "LoadState" /\ ~ReadFails(o) THEN [mstate EXCEPT ![r] = file[p]] ELSE mstate
    /\ sram' = IF k = "LoadSRAM" /\ ~ReadFails(o) THEN [sram EXCEPT ![r] = file[p]] ELSE sram
    /\ file' = IF k = "SaveSRAM" THEN [file EXCEPT ![p] = sram[r]] ELSE file
    /\ fileBy' = IF k = "SaveSRAM" THEN [fileBy EXCEPT ![p] = o] ELSE fileBy

\* ---------------------------------------------------------- runtime thread

\* LibretroContext::launch, thread body up to the direct load of save memory
ThreadLoadSRAM(r) ==
    /\ rtpc[r] = "spawned"
    /\ sram' = IF file[SRAMPath] # NoFile THEN [sram EXCEPT ![r] = file[SRAMPath]] ELSE sram
    /\ rtpc' = [rtpc EXCEPT ![r] = "loaded"]
    /\ UNCHANGED <<CoreInstance, destroyed, LastIOTask, ops, nextRuntime, running, queue,
                   drainLeft, cbOp, mstate, file, fileBy, 
                   stoppedBefore, calls>>
    /\ UNCHANGED <<avars, rvars, cvars>>

\* LoadedCallback: LoadSRAM(libretro_api) waits for its predecessor and starts reading
CallbackReady(r) == rtpc[r] = "loaded" /\ PredCompleted(cbOp[r])

CallbackBegin(r) ==
    /\ CallbackReady(r)
    /\ ops' = [ops EXCEPT ![cbOp[r]].st = "io"]
    /\ rtpc' = [rtpc EXCEPT ![r] = "cb_io"]
    /\ UNCHANGED <<CoreInstance, destroyed, LastIOTask, nextRuntime, running, queue,
                   drainLeft, cbOp, mstate, sram, file, fileBy,
                   stoppedBefore, calls>>
    /\ UNCHANGED <<avars, rvars, cvars>>

\* LoadedCallback: the read ends, ThisIOOperation->Unlock()
CallbackEnd(r) ==
    /\ rtpc[r] = "cb_io"
    /\ FinishAccess(r, cbOp[r])
    /\ rtpc' = [rtpc EXCEPT ![r] = "loop"]
    /\ UNCHANGED <<CoreInstance, destroyed, LastIOTask, nextRuntime, running, queue,
                   drainLeft, cbOp,  stoppedBefore, calls>>
    /\ UNCHANGED <<avars, rvars, cvars>>

\* while (l->running), first test: an iteration starts by draining the tasks queued
\* so far; once the flag is cleared the queued tasks are drained and the loop is left
LoopEnter(r) ==
    /\ rtpc[r] = "loop"
    /\ drainLeft' = [drainLeft EXCEPT ![r] = Len(queue[r])]
    /\ rtpc' = [rtpc EXCEPT ![r] = IF running[r] THEN "drain" ELSE "last_drain"]
    /\ UNCHANGED <<CoreInstance, destroyed, LastIOTask, ops, nextRuntime, running, queue,
                   cbOp, mstate, sram, file, fileBy, stoppedBefore, calls>>
    /\ UNCHANGED <<avars, rvars, cvars>>

\* a task of the queue is due: one of those seen at the start of the iteration, or any
\* queued task once the loop is being left
Draining(r) ==
    /\ queue[r] # <<>>
    /\ \/ rtpc[r] = "drain" /\ drainLeft[r] > 0
       \/ rtpc[r] = "last_drain"

Drained(n) == IF n > 0 THEN n - 1 ELSE 0

\* the task of SaveState: serialize into the buffer, SaveStateToFileTask->Unlock()
TaskSerialize(r) ==
    /\ Draining(r)
    /\ ops[Head(queue[r])].kind = "SaveState"
    /\ ops' = [ops EXCEPT ![Head(queue[r])].st = "unlocked", ![Head(queue[r])].buf = mstate[r]]
    /\ queue' = [queue EXCEPT ![r] = Tail(@)]
    /\ drainLeft' = [drainLeft EXCEPT ![r] = Drained(@)]
    /\ UNCHANGED <<CoreInstance, destroyed, LastIOTask, nextRuntime, rtpc, running, cbOp,
                   mstate, sram, file, fileBy,  stoppedBefore, calls>>
    /\ UNCHANGED <<avars, rvars, cvars>>

\* a task made by MakeOrderedFileAccessOperation: wait for the predecessor, start the access
TaskReady(r) ==
    /\ Draining(r)
    /\ ops[Head(queue[r])].kind # "SaveState"
    /\ ops[Head(queue[r])].st = "scheduled"
    /\ PredCompleted(Head(queue[r]))

TaskBegin(r) ==
    /\ TaskReady(r)
    /\ ops' = [ops EXCEPT ![Head(queue[r])].st = "io"]
    /\ UNCHANGED <<CoreInstance, destroyed, LastIOTask, nextRuntime, rtpc, running, queue,
                   drainLeft, cbOp, mstate, sram, file, fileBy,
                   stoppedBefore, calls>>
    /\ UNCHANGED <<avars, rvars, cvars>>

\* the access of the task ends, ThisIOOperation->Unlock()
TaskEnd(r) ==
    /\ Draining(r)
    /\ ops[Head(queue[r])].st = "io"
    /\ ops[Head(queue[r])].kind # "SaveState"
    /\ FinishAccess(r, Head(queue[r]))
    /\ queue' = [queue EXCEPT ![r] = Tail(@)]
    /\ drainLeft' = [drainLeft EXCEPT ![r] = Drained(@)]
    /\ UNCHANGED <<CoreInstance, destroyed, LastIOTask, nextRuntime, rtpc, running, cbOp,
                    stoppedBefore, calls>>
    /\ UNCHANGED <<avars, rvars, cvars>>

\* the rest of the iteration (frame time, audio, retro_run, pacing) and the next test
\* of while (l->running)
Iterate(r) ==
    /\ rtpc[r] = "drain"
    /\ drainLeft[r] = 0
    /\ drainLeft' = [drainLeft EXCEPT ![r] = Len(queue[r])]
    /\ rtpc' = [rtpc EXCEPT ![r] = IF running[r] THEN "drain" ELSE "last_drain"]
    /\ UNCHANGED <<CoreInstance, destroyed, LastIOTask, ops, nextRuntime, running, queue,
                   cbOp, mstate, sram, file, fileBy, stoppedBefore, calls>>
    /\ UNCHANGED <<avars, rvars, cvars>>

\* the loop is left
LoopExit(r) ==
    /\ rtpc[r] = "last_drain"
    /\ ~Draining(r)
    /\ rtpc' = [rtpc EXCEPT ![r] = "teardown"]
    /\ UNCHANGED <<CoreInstance, destroyed, LastIOTask, ops, nextRuntime, running, queue,
                   drainLeft, cbOp, mstate, sram, file, fileBy, 
                   stoppedBefore, calls>>
    /\ UNCHANGED <<avars, rvars, cvars>>

\* after the loop: save memory is written to the .srm file, then the core is unloaded
ThreadSaveSRAM(r) ==
    /\ rtpc[r] = "teardown"
    /\ file' = [file EXCEPT ![SRAMPath] = sram[r]]
    /\ fileBy' = [fileBy EXCEPT ![SRAMPath] = NoEvent]
    /\ rtpc' = [rtpc EXCEPT ![r] = "unloaded"]
    /\ UNCHANGED <<CoreInstance, destroyed, LastIOTask, ops, nextRuntime, running, queue,
                   drainLeft, cbOp, mstate, sram, 
                   stoppedBefore, calls>>
    /\ UNCHANGED <<avars, rvars, cvars>>

\* ----------------------------------------------------------- worker thread

\* variant with a fault: the task is not held until the runtime has serialized
WriteReadyWhenChained(o) ==
    /\ o \in OpIds
    /\ ops[o].kind = "SaveState"
    /\ ops[o].st \in {"scheduled", "unlocked"}
    /\ PredCompleted(o)

\* SaveStateToFileTask becomes runnable: unlocked and its prerequisite completed
WriteReady(o) ==
    /\ o \in OpIds
    /\ ops[o].kind = "SaveState"
    /\ ops[o].st = "unlocked"
    /\ PredCompleted(o)

WriteBegin(o) ==
    /\ WriteReady(o)
    /\ ops' = [ops EXCEPT ![o].st = "io"]
    /\ UNCHANGED <<CoreInstance, destroyed, LastIOTask, nextRuntime, rtpc, running, queue,
                   drainLeft, cbOp, mstate, sram, file, fileBy,
                   stoppedBefore, calls>>
    /\ UNCHANGED <<avars, rvars, cvars>>

\* FFileHelper::SaveArrayToFile returns, the completion event fires
WriteEnd(o) ==
    /\ o \in OpIds
    /\ ops[o].kind = "SaveState"
    /\ ops[o].st = "io"
    /\ ops' = [ops EXCEPT ![o].st = "done"]
    /\ file' = [file EXCEPT ![ops[o].path] = ops[o].buf]
    /\ fileBy' = [fileBy EXCEPT ![ops[o].path] = o]
    /\ UNCHANGED <<CoreInstance, destroyed, LastIOTask, nextRuntime, rtpc, running, queue,
                   drainLeft, cbOp, mstate, sram, 
                   stoppedBefore, calls>>
    /\ UNCHANGED <<avars, rvars, cvars>>

NextIO ==
    \/ \E c \in Components : LaunchInvalid(c)
    \/ \E c \in Components : Launch(c)
    \/ \E c \in Components : Shutdown(c)
    \/ \E c \in Components, i \in Identifiers : LoadState(c, i)
    \/ \E c \in Components, i \in Identifiers : SaveState(c, i)
    \/ \E c \in Components : BeginDestroy(c)
    \/ \E r \in Runtimes : ThreadLoadSRAM(r)
    \/ \E r \in Runtimes : CallbackBegin(r)
    \/ \E r \in Runtimes : CallbackEnd(r)
    \/ \E r \in Runtimes : LoopEnter(r)
    \/ \E r \in Runtimes : TaskSerialize(r)
    \/ \E r \in Runtimes : TaskBegin(r)
    \/ \E r \in Runtimes : TaskEnd(r)
    \/ \E r \in Runtimes : Iterate(r)
    \/ \E r \in Runtimes : LoopExit(r)
    \/ \E r \in Runtimes : ThreadSaveSRAM(r)
    \/ \E o \in 1..MaxCalls : WriteBegin(o)
    \/ \E o \in 1..MaxCalls : WriteEnd(o)

InitIO == IOInit /\ AllocInitWith(OthersOf(0, 0)) /\ RunInit /\ CallbackInit

SpecIO == InitIO /\ [][NextIO]_vars

\* ------------------------- one component whose sink may be gone (SpecQueue)

\* core_load_game on the runtime's thread: GameThreadMediaResourceInitTask finds the
\* render target or the sound buffer invalid and clears the run flag
RendezvousFails(r) ==
    /\ rtpc[r] = "spawned"
    /\ running[r]
    /\ running' = [running EXCEPT ![r] = FALSE]
    /\ UNCHANGED <<CoreInstance, destroyed, LastIOTask, ops, nextRuntime, rtpc, queue,
                   drainLeft, cbOp, mstate, sram, file, fileBy, stoppedBefore, calls>>
    /\ UNCHANGED <<avars, rvars, cvars>>

NextQueue ==
    \/ Launch("c1")
    \/ Shutdown("c1")
    \/ \E i \in Identifiers : LoadState("c1", i)
    \/ \E i \in Identifiers : SaveState("c1", i)
    \/ BeginDestroy("c1")
    \/ \E r \in Runtimes : RendezvousFails(r)
    \/ \E r \in Runtimes : ThreadLoadSRAM(r)
    \/ \E r \in Runtimes : CallbackBegin(r)
    \/ \E r \in Runtimes : CallbackEnd(r)
    \/ \E r \in Runtimes : LoopEnter(r)
    \/ \E r \in Runtimes : TaskSerialize(r)
    \/ \E r \in Runtimes : TaskBegin(r)
    \/ \E r \in Runtimes : TaskEnd(r)
    \/ \E r \in Runtimes : Iterate(r)
    \/ \E r \in Runtimes : LoopExit(r)
    \/ \E r \in Runtimes : ThreadSaveSRAM(r)
    \/ \E o \in 1..MaxCalls : WriteBegin(o)
    \/ \E o \in 1..MaxCalls : WriteEnd(o)

SpecQueue == InitIO /\ [][NextQueue]_vars

\* the steps of the thread of runtime r, and of the worker task of operation o
ThreadSteps(r) ==
    \/ ThreadLoadSRAM(r)
    \/ CallbackBegin(r)
    \/ CallbackEnd(r)
    \/ LoopEnter(r)
    \/ TaskSerialize(r)
    \/ TaskBegin(r)
    \/ TaskEnd(r)
    \/ Iterate(r)
    \/ LoopExit(r)
    \/ ThreadSaveSRAM(r)

WorkerSteps(o) == WriteBegin(o) \/ WriteEnd(o)

\* every runtime thread and every worker task that can take a step gets to take one
FairSpecQueue ==
    /\ SpecQueue
    /\ \A r \in Runtimes : WF_vars(ThreadSteps(r))
    /\ \A o \in 1..MaxCalls : WF_vars(WorkerSteps(o))

\* components that are launched once, load and save snapshots and may be stopped
NextChain ==
    \/ \E c \in Components : CoreInstance[c] = NoRuntime /\ Launch(c)
    \/ \E c \in Components : Shutdown(c)
    \/ \E c \in Components, i \in Identifiers : LoadState(c, i)
    \/ \E c \in Components, i \in Identifiers : SaveState(c, i)
    \/ \E r \in Runtimes : ThreadSteps(r)
    \/ \E o \in 1..MaxCalls : WorkerSteps(o)

SpecChain == InitIO /\ [][NextChain]_vars

FairSpecChain ==
    /\ SpecChain
    /\ \A r \in Runtimes : WF_vars(ThreadSteps(r))
    /\ \A o \in 1..MaxCalls : WF_vars(WorkerSteps(o))

\* --------------------------- pausing by the user and by the editor (SpecPause)

\* LibretroContext::Pause of runtime r
ContextPause(p, r, ShouldPause) == [p EXCEPT ![r] = ShouldPause]

\* Pause without NOT_LAUNCHED_GUARD in front of the assignment
PauseUnguarded(c, ShouldPause) ==
    /\ ~destroyed[c]
    /\ calls < MaxCalls
    /\ calls' = calls + 1
    /\ rt_paused' = IF CoreInstance[c] = NoRuntime THEN rt_paused
                    ELSE ContextPause(rt_paused, CoreInstance[c], ShouldPause)
    /\ Paused' = [Paused EXCEPT ![c] = ShouldPause]
    /\ pause_arg' = [pause_arg EXCEPT ![c] = [called |-> TRUE, value |-> ShouldPause]]
    /\ api_call' = [n |-> calls + 1, c |-> c, fn |-> "Pause",
                    guarded |-> CoreInstance[c] = NoRuntime, arg |-> ShouldPause]
    /\ UNCHANGED <<CoreInstance, destroyed, LastIOTask, ops, nextRuntime, rtpc, running,
                   queue, drainLeft, cbOp, mstate, sram, file, fileBy, stoppedBefore>>
    /\ UNCHANGED <<avars, rvars, evars, audio_write_call, editor_paused>>

\* ULibretroCoreInstance::Pause
Pause(c, ShouldPause) ==
    /\ ~destroyed[c]
    /\ calls < MaxCalls
    /\ calls' = calls + 1
    /\ IF CoreInstance[c] = NoRuntime
       THEN UNCHANGED <<rt_paused, Paused>>
       ELSE /\ rt_paused' = ContextPause(rt_paused, CoreInstance[c], ShouldPause)
            /\ Paused' = [Paused EXCEPT ![c] = ShouldPause]
    /\ pause_arg' = [pause_arg EXCEPT ![c] = [called |-> TRUE, value |-> ShouldPause]]
    /\ api_call' = [n |-> calls + 1, c |-> c, fn |-> "Pause",
                    guarded |-> CoreInstance[c] = NoRuntime, arg |-> ShouldPause]
    /\ UNCHANGED <<CoreInstance, destroyed, LastIOTask, ops, nextRuntime, rtpc, running,
                   queue, drainLeft, cbOp, mstate, sram, file, fileBy, stoppedBefore>>
    /\ UNCHANGED <<avars, rvars, evars, audio_write_call, editor_paused>>

\* the functions besides Pause that begin with NOT_LAUNCHED_GUARD
GuardedCalls == {"Shutdown", "LoadState", "SaveState"}

\* Shutdown, LoadState or SaveState returning at NOT_LAUNCHED_GUARD
NotLaunched(c, fn) ==
    /\ ~destroyed[c]
    /\ calls < MaxCalls
    /\ calls' = calls + 1
    /\ CoreInstance[c] = NoRuntime
    /\ api_call' = [n |-> calls + 1, c |-> c, fn |-> fn, guarded |-> TRUE, arg |-> FALSE]
    /\ UNCHANGED <<CoreInstance, destroyed, LastIOTask, ops, nextRuntime, rtpc, running,
                   queue, drainLeft, cbOp, mstate, sram, file, fileBy, stoppedBefore>>
    /\ UNCHANGED <<avars, rvars, evars, audio_write_call>>
    /\ UNCHANGED <<Paused, rt_paused, editor_paused, pause_arg>>

\* the components whose delegates are registered and whose core is launched
Listening(r) == {c \in Components : ~destroyed[c] /\ CoreInstance[c] = r}

\* what the ResumePIE handler passes to the runtime without looking at Paused
ResumePIEUnpauses(c) == FALSE

\* what the ResumePIE handler of component c passes to the runtime
ResumePIE(c) == Paused[c]

\* what the PausePIE handler of component c passes to the runtime
PausePIE(c) == TRUE

\* FEditorDelegates::PausePIE broadcast to the handler of every component
EditorPause ==
    /\ ~editor_paused
    /\ calls < MaxCalls
    /\ calls' = calls + 1
    /\ editor_paused' = TRUE
    /\ rt_paused' = [r \in Runtimes |->
                        IF Listening(r) = {} THEN rt_paused[r]
                        ELSE PausePIE(CHOOSE c \in Listening(r) : TRUE)]
    /\ api_call' = [n |-> calls + 1, c |-> "editor", fn |-> "PausePIE",
                    guarded |-> FALSE, arg |-> FALSE]
    /\ UNCHANGED <<CoreInstance, destroyed, LastIOTask, ops, nextRuntime, rtpc, running,
                   queue, drainLeft, cbOp, mstate, sram, file, fileBy, stoppedBefore>>
    /\ UNCHANGED <<avars, rvars, evars, audio_write_call, Paused, pause_arg>>

\* FEditorDelegates::ResumePIE broadcast to the handler of every component
EditorResume ==
    /\ editor_paused
    /\ calls < MaxCalls
    /\ calls' = calls + 1
    /\ editor_paused' = FALSE
    /\ rt_paused' = [r \in Runtimes |->
                        IF Listening(r) = {} THEN rt_paused[r]
                        ELSE ResumePIE(CHOOSE c \in Listening(r) : TRUE)]
    /\ api_call' = [n |-> calls + 1, c |-> "editor", fn |-> "ResumePIE",
                    guarded |-> FALSE, arg |-> FALSE]
    /\ UNCHANGED <<CoreInstance, destroyed, LastIOTask, ops, nextRuntime, rtpc, running,
                   queue, drainLeft, cbOp, mstate, sram, file, fileBy, stoppedBefore>>
    /\ UNCHANGED <<avars, rvars, evars, audio_write_call, Paused, pause_arg>>

\* the game thread alone: the component's API and the editor's delegates
NextPause ==
    \/ \E c \in Components : Launch(c)
    \/ \E c \in Components : Shutdown(c)
    \/ \E c \in Components, i \in Identifiers : LoadState(c, i)
    \/ \E c \in Components, i \in Identifiers : SaveState(c, i)
    \/ \E c \in Components : BeginDestroy(c)
    \/ \E c \in Components, ShouldPause \in BOOLEAN : Pause(c, ShouldPause)
    \/ \E c \in Components, fn \in GuardedCalls : NotLaunched(c, fn)
    \/ EditorPause
    \/ EditorResume

SpecPause == InitIO /\ [][NextPause]_vars

\* ------------------------------------------- the thread of LibretroContext::launch

Live(t) == tpc[t] \notin {"none", "released"}
Holding(t) == tpc[t] \notin {"none", "spawned", "released"}

\* LibretroContext::launch: the context is created and its thread is started
LaunchThread(core) ==
    /\ ~crashed
    /\ launched < MaxLaunches
    /\ launched' = launched + 1
    /\ tpc' = [tpc EXCEPT ![launched + 1] = "spawned"]
    /\ tcore' = [tcore EXCEPT ![launched + 1] = core]
    /\ UNCHANGED <<AllocatedInstances, PerCoreAllocatedInstances, others, InstanceNumber,
                   CoreInstanceNumber, callback_instance, func_wrap_table, crashed>>
    /\ UNCHANGED <<iovars, rvars, cvars>>

\* the block under MultipleDLLInstanceHandlingLock: both indices are taken, the entry of
\* func_wrap_table is chosen, and the check decides whether the thread goes on
Allocate(t) ==
    /\ ~crashed
    /\ tpc[t] = "spawned"
    /\ LET coreBits == PerCoreAllocatedInstances[tcore[t]]
           coreIndex == FindFirstZeroBit(coreBits, MAX_INSTANCES_PER_CORE)
           globalIndex == FindFirstZeroBit(AllocatedInstances, MAX_INSTANCES) IN
        /\ PerCoreAllocatedInstances' =
               [PerCoreAllocatedInstances EXCEPT ![tcore[t]] = SetBit(coreBits, coreIndex)]
        /\ AllocatedInstances' = SetBit(AllocatedInstances, globalIndex)
        /\ CoreInstanceNumber' = [CoreInstanceNumber EXCEPT ![t] = coreIndex]
        /\ InstanceNumber' = [InstanceNumber EXCEPT ![t] = globalIndex]
        /\ callback_instance' = [callback_instance EXCEPT ![t] = globalIndex]
        /\ crashed' = ~AllocationCheck(coreIndex, globalIndex)
    /\ tpc' = [tpc EXCEPT ![t] = "allocated"]
    /\ UNCHANGED <<others, launched, tcore, func_wrap_table>>
    /\ UNCHANGED <<iovars, rvars, cvars>>

\* core_load: the handlers are installed in the thread's entry of func_wrap_table, the
\* trampolines are registered and the core is initialized; an entry before the table is
\* not an object, writing to it may end the process or go unnoticed
CoreLoad(t) ==
    /\ ~crashed
    /\ tpc[t] = "allocated"
    /\ IF callback_instance[t] = INDEX_NONE
       THEN /\ crashed' \in BOOLEAN
            /\ UNCHANGED func_wrap_table
       ELSE /\ func_wrap_table' = [func_wrap_table EXCEPT ![callback_instance[t]] = t]
            /\ UNCHANGED crashed
    /\ tpc' = [tpc EXCEPT ![t] = "running"]
    /\ UNCHANGED <<AllocatedInstances, PerCoreAllocatedInstances, others, launched, tcore,
                   InstanceNumber, CoreInstanceNumber, callback_instance>>
    /\ UNCHANGED <<iovars, rvars, cvars>>

\* while (l->running) ends; save memory is written, the core is unloaded and the
\* context is destroyed
RunToTeardown(t) ==
    /\ ~crashed
    /\ tpc[t] = "running"
    /\ tpc' = [tpc EXCEPT ![t] = "torn_down"]
    /\ UNCHANGED <<AllocatedInstances, PerCoreAllocatedInstances, others, launched, tcore,
                   InstanceNumber, CoreInstanceNumber, callback_instance, func_wrap_table,
                   crashed>>
    /\ UNCHANGED <<iovars, rvars, cvars>>

\* the last block of the thread: both bits are cleared under the lock; TBitArray checks
\* the index, so clearing bit INDEX_NONE ends the process
Release(t) ==
    /\ ~crashed
    /\ tpc[t] = "torn_down"
    /\ AllocatedInstances' =
           IF InstanceNumber[t] = INDEX_NONE THEN AllocatedInstances
           ELSE ClearBit(AllocatedInstances, InstanceNumber[t])
    /\ PerCoreAllocatedInstances' =
           IF InstanceNumber[t] = INDEX_NONE \/ CoreInstanceNumber[t] = INDEX_NONE
           THEN PerCoreAllocatedInstances
           ELSE [PerCoreAllocatedInstances EXCEPT
                    ![tcore[t]] = ClearBit(@, CoreInstanceNumber[t])]
    /\ crashed' = (InstanceNumber[t] = INDEX_NONE \/ CoreInstanceNumber[t] = INDEX_NONE)
    /\ tpc' = IF crashed' THEN tpc ELSE [tpc EXCEPT ![t] = "released"]
    /\ UNCHANGED <<others, launched, tcore, InstanceNumber, CoreInstanceNumber,
                   callback_instance, func_wrap_table>>
    /\ UNCHANGED <<iovars, rvars, cvars>>

NextAlloc ==
    \/ \E core \in Cores : LaunchThread(core)
    \/ \E t \in Threads : Allocate(t)
    \/ \E t \in Threads : CoreLoad(t)
    \/ \E t \in Threads : RunToTeardown(t)
    \/ \E t \in Threads : Release(t)

InitAlloc == IOInit /\ AllocInit /\ RunInit /\ CallbackInit

SpecAlloc == InitAlloc /\ [][NextAlloc]_vars

\* --------------------------- core_load, statement by statement (SpecBind)

InstallNothing(t) ==
    /\ ~crashed
    /\ tpc[t] = "allocated"
    /\ tpc' = [tpc EXCEPT ![t] = "bound"]
    /\ UNCHANGED <<AllocatedInstances, PerCoreAllocatedInstances, others, launched, tcore,
                   InstanceNumber, CoreInstanceNumber, callback_instance, func_wrap_table,
                   crashed>>
    /\ UNCHANGED <<iovars, rvars, cvars>>

\* core_load: the std::function members of the thread's entry are assigned (fn,
\* video_refresh, environment, audio_sample, input_poll, input_state,
\* get_current_framebuffer); an entry before the table is not an object
Bind(t) ==
    /\ ~crashed
    /\ tpc[t] = "allocated"
    /\ IF callback_instance[t] = INDEX_NONE
       THEN /\ crashed' \in BOOLEAN
            /\ UNCHANGED func_wrap_table
       ELSE /\ func_wrap_table' = [func_wrap_table EXCEPT ![callback_instance[t]] = t]
            /\ UNCHANGED crashed
    /\ tpc' = [tpc EXCEPT ![t] = "bound"]
    /\ UNCHANGED <<AllocatedInstances, PerCoreAllocatedInstances, others, launched, tcore,
                   InstanceNumber, CoreInstanceNumber, callback_instance>>
    /\ UNCHANGED <<iovars, rvars, cvars>>

\* core_load: set_environment ... set_audio_sample_batch hand the trampolines of the
\* entry to the module, which may call them from now on
Register(t) ==
    /\ ~crashed
    /\ tpc[t] = "bound"
    /\ tpc' = [tpc EXCEPT ![t] = "registered"]
    /\ UNCHANGED <<AllocatedInstances, PerCoreAllocatedInstances, others, launched, tcore,
                   InstanceNumber, CoreInstanceNumber, callback_instance, func_wrap_table,
                   crashed>>
    /\ UNCHANGED <<iovars, rvars, cvars>>

\* core_load: g_retro.retro_init(), g_retro.initialized = true
RetroInit(t) ==
    /\ ~crashed
    /\ tpc[t] = "registered"
    /\ tpc' = [tpc EXCEPT ![t] = "running"]
    /\ UNCHANGED <<AllocatedInstances, PerCoreAllocatedInstances, others, launched, tcore,
                   InstanceNumber, CoreInstanceNumber, callback_instance, func_wrap_table,
                   crashed>>
    /\ UNCHANGED <<iovars, rvars, cvars>>

\* the module of thread t is loaded and holds trampolines: it can call them
CanInvoke(t) == tpc[t] \in {"registered", "running"}

NextBind ==
    \/ \E core \in Cores : LaunchThread(core)
    \/ \E t \in Threads : Allocate(t)
    \/ \E t \in Threads : Bind(t)
    \/ \E t \in Threads : Register(t)
    \/ \E t \in Threads : RetroInit(t)
    \/ \E t \in Threads : RunToTeardown(t)
    \/ \E t \in Threads : Release(t)

InitBind == IOInit /\ AllocInitWith(OthersOf(0, 0)) /\ RunInit /\ CallbackInit

SpecBind == InitBind /\ [][NextBind]_vars

\* ------------------------------- one context, statement by statement (SpecRun)

\* the context whose thread is followed
ctx == 1

LoopConditionIgnoresStop == TRUE
\* while (l->running)
LoopCondition == l_running

RendezvousIgnoresSink == l_running
\* GameThreadMediaResourceInitTask: running = false when a game object is gone
RendezvousFlag == IF sinkValid THEN l_running ELSE FALSE

AfterLoopUnload == "core_unload"
\* the statement after the run loop
AfterLoop == "save_sram"

\* (frames / l->av.timing.fps) - (FDateTime::Now() - start).GetTotalSeconds()
SleepFor(f, t) == f * FrameInterval - (t - start)

NeverBehind(s) == FALSE
\* sleep < -(1 / l->av.timing.fps)
BehindByMoreThanAFrame(s) == s < -FrameInterval

NoSleep(s) == 0
\* FMath::Max(0.0, sleep)
ClampedSleep(s) == IF s > 0 THEN s ELSE 0

\* audio_write: the frames for which QueuedAudio->Enqueue succeeds
Enqueued(n) == IF n <= AudioCapacity - QueuedAudio THEN n ELSE AudioCapacity - QueuedAudio

FramesOffered(n) == n
\* audio_write: its return value, the frames the core takes as written
FramesEnqueued(n) == IF l_running THEN Enqueued(n) ELSE n

\* core_load_game: the resources of the sink are set up on the game thread and the
\* thread waits for it
Rendezvous ==
    /\ tpc[ctx] = "running" /\ l_pc = "load_game"
    /\ l_running' = RendezvousFlag
    /\ rendezvous' = IF sinkValid THEN "valid" ELSE "invalid"
    /\ l_pc' = "loaded"
    /\ UNCHANGED <<sinkValid, frames, start, now, sleep, audioLeft, QueuedAudio, advanced,
                   stopAt, invalidAtTest, teardownLog, lastDur, didReset, prevReset>>
    /\ UNCHANGED <<iovars, avars, cvars>>

\* controller port, save memory read, LoadedCallback(l); frames = 0, start = Now()
Loaded ==
    /\ tpc[ctx] = "running" /\ l_pc = "loaded"
    /\ frames' = 0
    /\ start' = now
    /\ l_pc' = "loop_test"
    /\ UNCHANGED <<l_running, sinkValid, now, sleep, audioLeft, QueuedAudio, advanced,
                   stopAt, rendezvous, invalidAtTest, teardownLog, lastDur, didReset,
                   prevReset>>
    /\ UNCHANGED <<iovars, avars, cvars>>

\* while (l->running): the test
LoopTest ==
    /\ tpc[ctx] = "running" /\ l_pc = "loop_test"
    /\ IF LoopCondition
       THEN /\ advanced < MaxFrames
            /\ l_pc' = "retro_run"
            /\ invalidAtTest' = ~sinkValid
            /\ UNCHANGED teardownLog
       ELSE /\ l_pc' = AfterLoop
            /\ teardownLog' = <<"loop_exit">>
            /\ UNCHANGED invalidAtTest
    /\ UNCHANGED <<l_running, sinkValid, frames, start, now, sleep, audioLeft, QueuedAudio,
                   advanced, stopAt, rendezvous, lastDur, didReset, prevReset>>
    /\ UNCHANGED <<iovars, avars, cvars>>

\* frame time and audio callbacks, then l->g_retro.retro_run() is entered
RetroRun ==
    /\ tpc[ctx] = "running" /\ l_pc = "retro_run"
    /\ advanced' = advanced + 1
    /\ audioLeft' = AudioBatch
    /\ l_pc' = "in_frame"
    /\ UNCHANGED <<l_running, sinkValid, frames, start, now, sleep, QueuedAudio, stopAt,
                   rendezvous, invalidAtTest, teardownLog, lastDur, didReset, prevReset>>
    /\ UNCHANGED <<iovars, avars, cvars>>

\* inside retro_run the core hands its audio to audio_write, again until all is taken
AudioWrite ==
    /\ tpc[ctx] = "running" /\ l_pc = "in_frame"
    /\ audioLeft > 0
    /\ audioLeft' = audioLeft - FramesEnqueued(audioLeft)
    /\ QueuedAudio' = IF l_running THEN QueuedAudio + Enqueued(audioLeft) ELSE QueuedAudio
    /\ audio_write_call' = [count    |-> 1,
                            frames   |-> audioLeft,
                            returned |-> FramesEnqueued(audioLeft),
                            enqueued |-> QueuedAudio' - QueuedAudio,
                            running  |-> l_running]
    /\ UNCHANGED <<l_pc, l_running, sinkValid, frames, start, now, sleep, advanced, stopAt,
                   rendezvous, invalidAtTest, teardownLog, lastDur, didReset, prevReset>>
    /\ UNCHANGED <<iovars, avars, evars, pvars>>

\* retro_run returns after some time; frames++
RetroRunReturns ==
    /\ tpc[ctx] = "running" /\ l_pc = "in_frame"
    /\ audioLeft = 0
    /\ \E d \in 0..MaxStall :
        /\ now' = now + d
        /\ lastDur' = d
    /\ frames' = frames + 1
    /\ l_pc' = "pace"
    /\ UNCHANGED <<l_running, sinkValid, start, sleep, audioLeft, QueuedAudio, advanced,
                   stopAt, rendezvous, invalidAtTest, teardownLog, didReset, prevReset>>
    /\ UNCHANGED <<iovars, avars, cvars>>

\* auto sleep = ...; if (sleep < -(1 / fps))
PaceCompute ==
    /\ tpc[ctx] = "running" /\ l_pc = "pace"
    /\ sleep' = SleepFor(frames, now)
    /\ l_pc' = IF BehindByMoreThanAFrame(sleep') THEN "reset" ELSE "sleep"
    /\ prevReset' = didReset
    /\ didReset' = FALSE
    /\ UNCHANGED <<l_running, sinkValid, frames, start, now, audioLeft, QueuedAudio,
                   advanced, stopAt, rendezvous, invalidAtTest, teardownLog, lastDur>>
    /\ UNCHANGED <<iovars, avars, cvars>>

\* start = FDateTime::Now(); frames = 0; the clock is read a second time
PaceReset ==
    /\ tpc[ctx] = "running" /\ l_pc = "reset"
    /\ \E d \in 0..1 :
        /\ now' = now + d
        /\ start' = now + d
    /\ frames' = 0
    /\ didReset' = TRUE
    /\ l_pc' = "sleep"
    /\ UNCHANGED <<l_running, sinkValid, sleep, audioLeft, QueuedAudio, advanced, stopAt,
                   rendezvous, invalidAtTest, teardownLog, lastDur, prevReset>>
    /\ UNCHANGED <<iovars, avars, cvars>>

\* FPlatformProcess::Sleep(FMath::Max(0.0, sleep))
Sleep ==
    /\ tpc[ctx] = "running" /\ l_pc = "sleep"
    /\ now' = now + ClampedSleep(sleep)
    /\ l_pc' = "loop_test"
    /\ UNCHANGED <<l_running, sinkValid, frames, start, sleep, audioLeft, QueuedAudio,
                   advanced, stopAt, rendezvous, invalidAtTest, teardownLog, lastDur,
                   didReset, prevReset>>
    /\ UNCHANGED <<iovars, avars, cvars>>

\* FFileHelper::SaveArrayToFile(save memory, SRAMPath)
SaveSRam ==
    /\ tpc[ctx] = "running" /\ l_pc = "save_sram"
    /\ teardownLog' = Append(teardownLog, "save_sram")
    /\ l_pc' = "core_unload"
    /\ UNCHANGED <<l_running, sinkValid, frames, start, now, sleep, audioLeft, QueuedAudio,
                   advanced, stopAt, rendezvous, invalidAtTest, lastDur, didReset, prevReset>>
    /\ UNCHANGED <<iovars, avars, cvars>>

\* l->core_unload(): retro_deinit, FreeDllHandle
CoreUnload ==
    /\ tpc[ctx] = "running" /\ l_pc = "core_unload"
    /\ teardownLog' = Append(teardownLog, "core_unload")
    /\ l_pc' = "video_deinit"
    /\ UNCHANGED <<l_running, sinkValid, frames, start, now, sleep, audioLeft, QueuedAudio,
                   advanced, stopAt, rendezvous, invalidAtTest, lastDur, didReset, prevReset>>
    /\ UNCHANGED <<iovars, avars, cvars>>

\* l->video_deinit(), the GL context and the window, then l->~LibretroContext(), which
\* drops the references to the render target, the sound buffer and the audio queue
VideoDeinit ==
    /\ tpc[ctx] = "running" /\ l_pc = "video_deinit"
    /\ teardownLog' = Append(teardownLog, "video_deinit")
    /\ l_pc' = "end"
    /\ tpc' = [tpc EXCEPT ![ctx] = "torn_down"]
    /\ UNCHANGED <<l_running, sinkValid, frames, start, now, sleep, audioLeft, QueuedAudio,
                   advanced, stopAt, rendezvous, invalidAtTest, lastDur, didReset, prevReset>>
    /\ UNCHANGED <<AllocatedInstances, PerCoreAllocatedInstances, others, launched, tcore,
                   InstanceNumber, CoreInstanceNumber, callback_instance, func_wrap_table,
                   crashed>>
    /\ UNCHANGED <<iovars, cvars>>

\* LibretroContext::Shutdown, called on the game thread: the run flag is cleared
ShutdownRun ==
    /\ launched = 1
    /\ stopAt = NoStop
    /\ l_running' = FALSE
    /\ stopAt' = advanced
    /\ UNCHANGED <<l_pc, sinkValid, frames, start, now, sleep, audioLeft, QueuedAudio,
                   advanced, rendezvous, invalidAtTest, teardownLog, lastDur, didReset,
                   prevReset>>
    /\ UNCHANGED <<iovars, avars, cvars>>

\* the render target or the sound buffer is collected
InvalidateSink ==
    /\ sinkValid
    /\ sinkValid' = FALSE
    /\ UNCHANGED <<l_pc, l_running, frames, start, now, sleep, audioLeft, QueuedAudio,
                   advanced, stopAt, rendezvous, invalidAtTest, teardownLog, lastDur,
                   didReset, prevReset>>
    /\ UNCHANGED <<iovars, avars, cvars>>

\* the sound wave takes a frame out of the queue while it exists
ConsumeAudio ==
    /\ sinkValid
    /\ QueuedAudio > 0
    /\ QueuedAudio' = QueuedAudio - 1
    /\ UNCHANGED <<l_pc, l_running, sinkValid, frames, start, now, sleep, audioLeft,
                   advanced, stopAt, rendezvous, invalidAtTest, teardownLog, lastDur,
                   didReset, prevReset>>
    /\ UNCHANGED <<iovars, avars, cvars>>

LaunchContext == launched = 0 /\ \E core \in Cores : LaunchThread(core)

ThreadStep ==
    \/ Allocate(ctx)
    \/ CoreLoad(ctx)
    \/ Rendezvous
    \/ Loaded
    \/ LoopTest
    \/ RetroRun
    \/ AudioWrite
    \/ RetroRunReturns
    \/ PaceCompute
    \/ PaceReset
    \/ Sleep
    \/ SaveSRam
    \/ CoreUnload
    \/ VideoDeinit
    \/ Release(ctx)

NextRun ==
    \/ LaunchContext
    \/ ThreadStep
    \/ ShutdownRun
    \/ InvalidateSink
    \/ ConsumeAudio

InitRun == IOInit /\ AllocInitWith(OthersOf(0, 0)) /\ RunInit /\ CallbackInit

SpecRun == InitRun /\ [][NextRun]_vars

\* the thread is scheduled as long as it can take a step
FairSpecRun == SpecRun /\ WF_vars(ThreadStep)

\* ------------------------------------- the callbacks of one context (SpecEnv)

\* the commands of the switch in core_environment, and one it has no case for
Recognized ==
    {"GET_VARIABLE", "GET_VARIABLE_UPDATE", "SET_VARIABLES", "SET_CORE_OPTIONS",
     "GET_LOG_INTERFACE", "GET_CAN_DUPE", "SET_PIXEL_FORMAT", "SET_HW_RENDER",
     "SET_FRAME_TIME_CALLBACK", "SET_AUDIO_CALLBACK", "GET_SAVE_DIRECTORY",
     "GET_SYSTEM_DIRECTORY", "GET_LANGUAGE", "GET_AUDIO_VIDEO_ENABLE",
     "SET_INPUT_DESCRIPTORS", "GET_PREFERRED_HW_RENDER", "SET_HW_SHARED_CONTEXT",
     "SET_HW_RENDER_CONTEXT_NEGOTIATION_INTERFACE"}
Commands == Recognized \cup {"GET_USERNAME"}

\* what *data holds: a pixel format, the key of a variable, a reference interval
PixelFormats == <<"0RGB1555", "XRGB8888", "RGB565">>
Keys == {"key"}
References == {2}
Payloads(cmd) ==
    CASE cmd = "SET_PIXEL_FORMAT" -> 0..Len(PixelFormats)
      [] cmd \in {"GET_VARIABLE", "SET_VARIABLES"} -> Keys
      [] cmd = "SET_FRAME_TIME_CALLBACK" -> References
      [] OTHER -> {0}

\* the members core_environment may write, with its return value and whether it ended
\* the process
Unhandled ==
    [ret |-> FALSE, fatal |-> FALSE, settings |-> settings, g_video |-> g_video,
     UsingOpenGL |-> UsingOpenGL, runloop_frame_time |-> runloop_frame_time,
     audio_callback |-> audio_callback,
     hw_render_context_negotiation |-> hw_render_context_negotiation]

video_set_pixel_format(format) ==
    IF g_video.tex_id
    THEN [Unhandled EXCEPT !.fatal = TRUE]
    ELSE [Unhandled EXCEPT !.g_video.pixfmt = PixelFormats[format + 1], !.ret = TRUE]

\* case RETRO_ENVIRONMENT_SET_FRAME_TIME_CALLBACK: the struct is copied, then break
\* leaves the switch and the function returns false
SetFrameTimeCallback(data) ==
    [Unhandled EXCEPT !.runloop_frame_time = [callback |-> TRUE, reference |-> data]]

core_environment(cmd, data) ==
    CASE cmd = "GET_VARIABLE" -> [Unhandled EXCEPT !.ret = data \in settings]
      [] cmd = "GET_VARIABLE_UPDATE" -> Unhandled
      [] cmd = "SET_VARIABLES" ->
            [Unhandled EXCEPT !.settings = settings \cup {data}, !.ret = TRUE]
      [] cmd = "SET_CORE_OPTIONS" -> [Unhandled EXCEPT !.fatal = TRUE]
      [] cmd \in {"GET_LOG_INTERFACE", "GET_CAN_DUPE", "GET_SAVE_DIRECTORY",
                  "GET_SYSTEM_DIRECTORY", "GET_LANGUAGE", "SET_INPUT_DESCRIPTORS",
                  "GET_PREFERRED_HW_RENDER", "SET_HW_SHARED_CONTEXT"} ->
            [Unhandled EXCEPT !.ret = TRUE]
      [] cmd = "SET_PIXEL_FORMAT" ->
            IF data >= Len(PixelFormats) THEN Unhandled ELSE video_set_pixel_format(data)
      [] cmd = "SET_HW_RENDER" ->
            [Unhandled EXCEPT !.g_video.hw = TRUE, !.UsingOpenGL = TRUE, !.ret = TRUE]
      [] cmd = "SET_FRAME_TIME_CALLBACK" -> SetFrameTimeCallback(data)
      [] cmd = "SET_AUDIO_CALLBACK" ->
            [Unhandled EXCEPT !.audio_callback = TRUE, !.ret = TRUE]
      [] cmd = "GET_AUDIO_VIDEO_ENABLE" -> Unhandled
      [] cmd = "SET_HW_RENDER_CONTEXT_NEGOTIATION_INTERFACE" ->
            [Unhandled EXCEPT !.hw_render_context_negotiation = TRUE, !.ret = TRUE]
      [] OTHER -> Unhandled

\* the core calls the environment trampoline of its entry
Environment(cmd, data) ==
    /\ ~env_crashed
    /\ LET r == core_environment(cmd, data) IN
        /\ settings' = r.settings
        /\ g_video' = r.g_video
        /\ UsingOpenGL' = r.UsingOpenGL
        /\ runloop_frame_time' = r.runloop_frame_time
        /\ audio_callback' = r.audio_callback
        /\ hw_render_context_negotiation' = r.hw_render_context_negotiation
        /\ env_crashed' = r.fatal
        /\ env_call' = [count      |-> 1,
                        recognized |-> cmd \in Recognized,
                        ret        |-> r.ret,
                        changed    |-> \/ r.settings # settings
                                       \/ r.g_video # g_video
                                       \/ r.UsingOpenGL # UsingOpenGL
                                       \/ r.runloop_frame_time # runloop_frame_time
                                       \/ r.audio_callback # audio_callback
                                       \/ r.hw_render_context_negotiation
                                            # hw_render_context_negotiation]
    /\ UNCHANGED <<runloop_frame_time_last, ticks, frame_time_call, audio_write_call>>
    /\ UNCHANGED <<iovars, avars, rvars, pvars>>

\* video_configure, called by core_load_game if (UsingOpenGL): the texture exists from
\* here on
VideoConfigure ==
    /\ ~env_crashed
    /\ UsingOpenGL
    /\ ~g_video.tex_id
    /\ g_video' = [g_video EXCEPT !.tex_id = TRUE]
    /\ UNCHANGED <<settings, UsingOpenGL, runloop_frame_time, runloop_frame_time_last,
                   audio_callback, hw_render_context_negotiation, ticks, env_crashed,
                   env_call, frame_time_call, audio_write_call>>
    /\ UNCHANGED <<iovars, avars, rvars, pvars>>

\* cpu_features_get_time_usec: SDL_GetTicks(), which counts milliseconds
cpu_features_get_time_usec == ticks

\* the argument of the frame time callback
FrameTimeUsec ==
    LET current == cpu_features_get_time_usec
        delta == IF runloop_frame_time_last = 0
                 THEN runloop_frame_time.reference
                 ELSE current - runloop_frame_time_last
    IN  delta * 1000

\* the frame time block at the head of an iteration of the run loop
FrameTime ==
    /\ ~env_crashed
    /\ runloop_frame_time.callback
    /\ frame_time_call.count < MaxFrameTimeCalls
    /\ runloop_frame_time_last' = cpu_features_get_time_usec
    /\ frame_time_call' = [count     |-> frame_time_call.count + 1,
                           usec      |-> FrameTimeUsec,
                           at        |-> ticks,
                           elapsed   |-> ticks - frame_time_call.at,
                           reference |-> runloop_frame_time.reference]
    /\ UNCHANGED <<settings, g_video, UsingOpenGL, runloop_frame_time, audio_callback,
                   hw_render_context_negotiation, ticks, env_crashed, env_call,
                   audio_write_call>>
    /\ UNCHANGED <<iovars, avars, rvars, pvars>>

\* a millisecond passes
Tick ==
    /\ ticks < MaxTicks
    /\ ticks' = ticks + 1
    /\ UNCHANGED <<settings, g_video, UsingOpenGL, runloop_frame_time,
                   runloop_frame_time_last, audio_callback,
                   hw_render_context_negotiation, env_crashed, env_call, frame_time_call,
                   audio_write_call>>
    /\ UNCHANGED <<iovars, avars, rvars, pvars>>

NextEnv ==
    \/ \E cmd \in Commands : \E data \in Payloads(cmd) : Environment(cmd, data)
    \/ VideoConfigure
    \/ FrameTime
    \/ Tick

InitEnv == IOInit /\ AllocInitWith(OthersOf(0, 0)) /\ RunInit /\ CallbackInit

SpecEnv == InitEnv /\ [][NextEnv]_vars

\* ================================================================ properties

Max(S) == CHOOSE x \in S : \A y \in S : y <= x
Completed(e) == IF e = NoEvent THEN TRUE ELSE ops[e].st = "done"
SavesOn(p) == {o \in OpIds : ops[o].path = p /\ ops[o].kind = "SaveState"}

\* the thread or worker that executes o has reached the point where o waits for its
\* predecessor
AtWait(o) ==
    LET r == ops[o].rt IN
    IF ops[o].kind = "SaveState" THEN ops[o].st = "unlocked"
    ELSE IF ops[o].kind = "LoadSRAM" THEN rtpc[r] = "loaded" /\ cbOp[r] = o
    ELSE Draining(r) /\ Head(queue[r]) = o /\ ops[o].st = "scheduled"

\* o can start its file access now
CanStart(o) ==
    IF ops[o].kind = "SaveState" THEN WriteReady(o)
    ELSE IF ops[o].kind = "LoadSRAM" THEN CallbackReady(ops[o].rt)
    ELSE TaskReady(ops[o].rt)

Queued(o) == \E i \in 1..Len(queue[ops[o].rt]) : queue[ops[o].rt][i] = o

\* C1: of two operations scheduled on the same path, the one scheduled later starts its
\* file access only after the earlier one has finished its own; so no two operations on
\* a path are in their file access at the same time
C1_OrderedPerPath ==
    \A a \in OpIds, b \in OpIds :
        (a < b /\ ops[a].path = ops[b].path /\ ops[b].st \in {"io", "done"})
            => ops[a].st = "done"

\* an operation of another runtime is ready and waits while its predecessor is in its
\* file access
C1_Witness ==
    \E a \in OpIds, b \in OpIds :
        /\ a < b
        /\ ops[a].path = ops[b].path
        /\ ops[a].rt # ops[b].rt
        /\ ops[a].st = "io"
        /\ AtWait(b)

\* C2: once all SaveState writes scheduled on a path have completed, the file holds the
\* payload of the write scheduled last
C2_LastWriteWins ==
    \A p \in Paths :
        (SavesOn(p) # {} /\ \A o \in SavesOn(p) : ops[o].st = "done")
            => /\ fileBy[p] = Max(SavesOn(p))
               /\ file[p] = ops[Max(SavesOn(p))].buf

\* two writes of different runtimes with different payloads have completed
C2_Witness ==
    \E p \in Paths : \E a \in SavesOn(p), b \in SavesOn(p) :
        /\ a < b
        /\ ops[a].rt # ops[b].rt
        /\ ops[a].st = "done" /\ ops[b].st = "done"
        /\ ops[a].buf # ops[b].buf
        /\ file[p] = ops[b].buf

\* C3: a LoadState scheduled after a SaveState on the same path hands to unserialize the
\* bytes that save serialized (the latest save scheduled before it)
C3_LoadSeesSave ==
    \A l \in OpIds :
        (ops[l].kind = "LoadState" /\ ops[l].st = "done")
            => LET W == {w \in SavesOn(ops[l].path) : w < l} IN
               W # {} => /\ ~ops[l].failed
                         /\ ops[Max(W)].buf # NoData
                         /\ ops[l].got = ops[Max(W)].buf

\* a load of another runtime has read what the save wrote
C3_Witness ==
    \E w \in OpIds, l \in OpIds :
        /\ w < l
        /\ ops[w].kind = "SaveState" /\ ops[l].kind = "LoadState"
        /\ ops[w].path = ops[l].path
        /\ ops[w].rt # ops[l].rt
        /\ ops[l].st = "done"
        /\ ops[l].got = ops[w].buf
        /\ mstate[ops[l].rt] = ops[w].buf

\* C4 (as claimed): a runtime launched after another one was shut down has read the
\* save-memory file only if the older runtime has finished its teardown write
ReadSaveMemory(r) == rtpc[r] \notin {"none", "spawned"}
C4_TeardownWriteBeforeLoad ==
    \A n \in Runtimes : \A o \in stoppedBefore[n] :
        ReadSaveMemory(n) => rtpc[o] = "unloaded"

\* C5: an operation whose read failed has fulfilled its completion event, and its
\* successor on the path, once reached, can start
C5_FailureCompletes ==
    \A a \in OpIds :
        ops[a].failed =>
            /\ ops[a].st = "done"
            /\ \A b \in OpIds : (ops[b].pred = a /\ AtWait(b)) => CanStart(b)

\* the successor of a failed load has done its own file access
C5_Witness ==
    \E a \in OpIds, b \in OpIds :
        /\ ops[b].pred = a
        /\ ops[a].failed
        /\ ops[a].kind = "LoadState"
        /\ ops[b].st = "done"

\* o sits in the task queue of its runtime behind a task of another path that waits for
\* its own predecessor
HeldUpByOtherPath(o) ==
    \E q \in OpIds :
        /\ q # o
        /\ ops[q].rt = ops[o].rt
        /\ ops[q].path # ops[o].path
        /\ ops[q].kind # "LoadSRAM"
        /\ AtWait(q)
        /\ ~Completed(ops[q].pred)
        /\ Queued(o)

\* C6 (as claimed): an operation whose predecessor has completed is never held up by an
\* operation on another path, also not by one issued to the same runtime
C6_NeverHeldUpByOtherPath ==
    \A o \in OpIds :
        (ops[o].st = "scheduled" /\ Completed(ops[o].pred)) => ~HeldUpByOtherPath(o)

\* C6 (amended): the only completion event an operation waits for is its predecessor's
\* on the same path: once its thread or worker has reached it and that predecessor has
\* completed, it can start, whatever the state of the other paths
C6_WaitsOnlyForOwnPredecessor ==
    \A o \in OpIds : (AtWait(o) /\ Completed(ops[o].pred)) => CanStart(o)

\* an operation is in its file access while an operation scheduled earlier on another
\* path is incomplete
C6_Witness ==
    \E q \in OpIds, o \in OpIds :
        /\ q < o
        /\ ops[q].path # ops[o].path
        /\ ops[q].kind # "LoadSRAM" /\ ops[o].kind # "LoadSRAM"
        /\ ops[q].st # "done"
        /\ ops[o].st = "io"

OthersHold(s) == IF s < OthersTotal(others) THEN 1 ELSE 0
HoldersOf(s) == {t \in Threads : Holding(t) /\ callback_instance[t] = s}

\* C7: every entry of func_wrap_table is held by at most one live runtime
C7_SlotHeldOnce ==
    \A s \in 0..(MAX_INSTANCES - 1) : Cardinality(HoldersOf(s)) + OthersHold(s) <= 1

\* an entry given back by one runtime is held by a later one, next to another holder
C7_Witness ==
    \E t1 \in Threads, t2 \in Threads, t3 \in Threads :
        /\ tpc[t1] = "released" /\ Holding(t2) /\ Holding(t3)
        /\ t2 # t3
        /\ callback_instance[t1] # INDEX_NONE
        /\ callback_instance[t2] = callback_instance[t1]
        /\ callback_instance[t3] # INDEX_NONE

\* C8 (as claimed): a thread that found no free global index is given no entry and does
\* not go on: the process has stopped at the check
C8_ExhaustedAcquireFails ==
    \A t \in Threads :
        (tpc[t] \notin {"none", "spawned"} /\ InstanceNumber[t] = INDEX_NONE) => crashed

ValidPair(t) == InstanceNumber[t] # INDEX_NONE /\ CoreInstanceNumber[t] # INDEX_NONE

\* C9: two live runtimes of one core never hold the same pair of indices, none holds a
\* pair of a runtime launched earlier, and the bits of a released pair are clear unless
\* a later runtime has taken them again
C9_PairHeldOnce ==
    /\ \A t1 \in Threads, t2 \in Threads :
           (t1 # t2 /\ Holding(t1) /\ Holding(t2) /\ tcore[t1] = tcore[t2])
               => <<InstanceNumber[t1], CoreInstanceNumber[t1]>>
                      # <<InstanceNumber[t2], CoreInstanceNumber[t2]>>
    /\ \A t \in Threads :
           (Holding(t) /\ ValidPair(t))
               => /\ InstanceNumber[t] >= OthersTotal(others)
                  /\ CoreInstanceNumber[t] >= others[tcore[t]]
    /\ \A t \in Threads :
           (tpc[t] = "released" /\ ValidPair(t))
               => /\ InstanceNumber[t] \in AllocatedInstances
                        => \E u \in Threads : Holding(u) /\ InstanceNumber[u] = InstanceNumber[t]
                  /\ CoreInstanceNumber[t] \in PerCoreAllocatedInstances[tcore[t]]
                        => \E u \in Threads : /\ Holding(u)
                                              /\ tcore[u] = tcore[t]
                                              /\ CoreInstanceNumber[u] = CoreInstanceNumber[t]

\* a pair has been released and is free, while another runtime of the core holds its own
C9_Witness ==
    \E t1 \in Threads, t2 \in Threads :
        /\ tpc[t1] = "released" /\ ValidPair(t1)
        /\ InstanceNumber[t1] \notin AllocatedInstances
        /\ CoreInstanceNumber[t1] \notin PerCoreAllocatedInstances[tcore[t1]]
        /\ Holding(t2) /\ ValidPair(t2) /\ tcore[t2] = tcore[t1]

LowestFree(bits, size) ==
    LET free == (0..(size - 1)) \ bits IN
    CHOOSE i \in free : \A j \in free : i <= j
HasFree(bits, size) == (0..(size - 1)) \ bits # {}

\* C10: an allocation returns the lowest free index of the global array and the lowest
\* free index of the array of its core
C10_LowestFree ==
    [][\A t \in Threads :
          (tpc[t] = "spawned" /\ tpc'[t] = "allocated")
              => /\ HasFree(AllocatedInstances, MAX_INSTANCES)
                     => InstanceNumber'[t] = LowestFree(AllocatedInstances, MAX_INSTANCES)
                 /\ HasFree(PerCoreAllocatedInstances[tcore[t]], MAX_INSTANCES_PER_CORE)
                     => CoreInstanceNumber'[t] =
                            LowestFree(PerCoreAllocatedInstances[tcore[t]], MAX_INSTANCES_PER_CORE)
      ]_vars

\* on an otherwise empty pool, allocate, release, allocate has returned the same pair
C10_Witness ==
    \E t1 \in Threads, t2 \in Threads :
        /\ OthersTotal(others) = 0
        /\ tpc[t1] = "released" /\ Holding(t2)
        /\ \A t3 \in Threads : t3 \notin {t1, t2} => tpc[t3] = "none"
        /\ tcore[t1] = tcore[t2]
        /\ ValidPair(t1)
        /\ InstanceNumber[t2] = InstanceNumber[t1]
        /\ CoreInstanceNumber[t2] = CoreInstanceNumber[t1]

LoadedModule(t) == tpc[t] = "running"
LoadedPath(t) == InstancedCorePath(tcore[t], CoreInstanceNumber[t])

\* C11 (as claimed): a thread that found either array full has stopped the process at
\* the check, has set no bit in the other array, and has not gone on to core_load
C11_EitherExhaustedFails ==
    \A t \in Threads :
        (tpc[t] \notin {"none", "spawned"} /\ ~ValidPair(t))
            => /\ crashed
               /\ tpc[t] = "allocated"
               /\ InstanceNumber[t] \notin AllocatedInstances
               /\ CoreInstanceNumber[t] \notin PerCoreAllocatedInstances[tcore[t]]

\* C12 (as claimed): the runtime with index 0 of its core has loaded the core file itself,
\* one with index k > 0 the copy named with k, and no two live runtimes of one core,
\* those launched earlier included, have loaded the same file
C12_DistinctFiles ==
    /\ \A t \in Threads :
           LoadedModule(t)
               => /\ CoreInstanceNumber[t] = 0 <=> LoadedPath(t) = <<tcore[t], <<>>, "dll">>
                  /\ \A i \in 0..(others[tcore[t]] - 1) :
                         LoadedPath(t) # InstancedCorePath(tcore[t], i)
    /\ \A t1 \in Threads, t2 \in Threads :
           (t1 # t2 /\ LoadedModule(t1) /\ LoadedModule(t2) /\ tcore[t1] = tcore[t2])
               => LoadedPath(t1) # LoadedPath(t2)

\* C13: after the run loop the thread writes save memory, unloads the core, gives up
\* the video and sink resources and only then clears its bits; while it is in the loop,
\* or has not yet written save memory, its bits are set
C13_TeardownOrder ==
    /\ \E n \in 0..4 :
           teardownLog = SubSeq(<<"loop_exit", "save_sram", "core_unload", "video_deinit">>, 1, n)
    /\ tpc[ctx] \in {"torn_down", "released"} => Len(teardownLog) = 4
    /\ (tpc[ctx] = "running" /\ ValidPair(ctx))
           => /\ InstanceNumber[ctx] \in AllocatedInstances
              /\ CoreInstanceNumber[ctx] \in PerCoreAllocatedInstances[tcore[ctx]]
    /\ (Holding(ctx) /\ InstanceNumber[ctx] \notin AllocatedInstances)
           => Len(teardownLog) = 4

\* the context ran frames, was torn down and has given its indices back
C13_Witness ==
    /\ tpc[ctx] = "released"
    /\ advanced > 0
    /\ InstanceNumber[ctx] \notin AllocatedInstances
    /\ teardownLog = <<"loop_exit", "save_sram", "core_unload", "video_deinit">>

\* C14: a Launch whose core or ROM file is missing spawns no runtime, allocates nothing,
\* schedules no file operation, and leaves CoreInstance of the component unset
C14_InvalidLaunchLeavesNothing ==
    [][\A c \in Components :
          LaunchInvalid(c)
              => /\ nextRuntime' = nextRuntime
                 /\ rtpc' = rtpc
                 /\ ops' = ops
                 /\ LastIOTask' = LastIOTask
                 /\ queue' = queue
                 /\ avars' = avars
                 /\ CoreInstance'[c] = NoRuntime
      ]_vars

\* a component was launched once and Launch was then called with a missing file
C14_Witness ==
    /\ calls = 3
    /\ nextRuntime = 1
    /\ Len(ops) = 1
    /\ \A c \in Components : ~destroyed[c] /\ CoreInstance[c] = NoRuntime

QueuedTask(o) == ops[o].kind # "LoadSRAM"
InQueue(o) == \E i \in 1..Len(queue[ops[o].rt]) : queue[ops[o].rt][i] = o
Dropped(o) == QueuedTask(o) /\ ops[o].st = "scheduled" /\ ~InQueue(o)
DroppedAfter(o) ==
    /\ ops'[o].kind # "LoadSRAM"
    /\ ops'[o].st = "scheduled"
    /\ \A i \in 1..Len(queue'[ops'[o].rt]) : queue'[ops'[o].rt][i] # o
TaskStarted(o) == ops[o].st # "scheduled"
TaskDone(o) == IF ops[o].kind = "SaveState" THEN ops[o].st # "scheduled" ELSE ops[o].st = "done"

LeftLoop(r) == rtpc[r] \in {"teardown", "unloaded"}

\* C15: a runtime that has left its run loop has an empty task queue, a task made while
\* the runtime had not left the loop was put in the queue, one made afterwards was not,
\* and a task that was not put in the queue never runs
C15_TasksBeforeExitRun ==
    /\ [](\A r \in Runtimes : LeftLoop(r) => queue[r] = <<>>)
    /\ [](\A o \in OpIds : Dropped(o) => LeftLoop(ops[o].rt))
    /\ [][/\ \A o \in OpIds : Dropped(o) => ops'[o] = ops[o] /\ DroppedAfter(o)
          /\ (Len(ops') = Len(ops) + 1 /\ ops'[Len(ops')].kind # "LoadSRAM")
                 => (LeftLoop(ops'[Len(ops')].rt) <=> DroppedAfter(Len(ops')))
      ]_vars

\* a runtime ran one task, left its loop, and a later task for it was dropped
C15_Witness ==
    \E o1 \in OpIds, o2 \in OpIds :
        /\ ops[o1].rt = ops[o2].rt
        /\ QueuedTask(o1) /\ TaskDone(o1)
        /\ Dropped(o2)

\* C16: the tasks of one runtime run in the order they were enqueued
C16_TasksInOrder ==
    /\ \A o1 \in OpIds, o2 \in OpIds :
           (o1 < o2 /\ ops[o1].rt = ops[o2].rt /\ QueuedTask(o1) /\ QueuedTask(o2)
               /\ TaskStarted(o2))
               => TaskDone(o1)
    /\ \A r \in Runtimes : \A i \in 1..Len(queue[r]), j \in 1..Len(queue[r]) :
           i < j => queue[r][i] < queue[r][j]

\* two tasks of one runtime, on different paths, have both run
C16_Witness ==
    \E o1 \in OpIds, o2 \in OpIds :
        /\ o1 < o2 /\ ops[o1].rt = ops[o2].rt
        /\ QueuedTask(o1) /\ QueuedTask(o2)
        /\ TaskDone(o1) /\ TaskDone(o2)
        /\ ops[o1].path # ops[o2].path

C18_InvalidSinkAtLoadNeverRuns ==
    rendezvous = "invalid"
        => /\ ~l_running
           /\ advanced = 0
           /\ l_pc \notin {"retro_run", "in_frame", "pace", "reset", "sleep"}

\* the sink was invalid at the rendezvous and the thread tore down without Shutdown
C18_Witness ==
    /\ rendezvous = "invalid"
    /\ stopAt = NoStop
    /\ tpc[ctx] = "released"

\* C19 (as claimed): an iteration that began with the sink invalid does not enter
\* retro_run
C19_InvalidSinkEndsLoop ==
    l_pc \in {"retro_run", "in_frame"} => ~invalidAtTest

Debt == (now - start) - frames * FrameInterval

\* C20: after a frame, a lag of more than one frame interval resets the clock and the
\* counter and the loop sleeps zero; otherwise the loop sleeps what is left of the
\* frame's time, never a negative amount; the loop never carries a lag of more than one
\* interval into the next iteration, and a frame shorter than the interval that follows a
\* reset is followed by a sleep of the rest of its interval
C20_PacingDropsBacklog ==
    /\ l_pc = "reset" => Debt > FrameInterval
    /\ l_pc = "sleep"
           => /\ ClampedSleep(sleep) >= 0
              /\ didReset => (frames = 0 /\ start = now /\ ClampedSleep(sleep) = 0)
              /\ ~didReset => (sleep = -Debt /\ Debt <= FrameInterval
                                 /\ ClampedSleep(sleep) = IF Debt < 0 THEN -Debt ELSE 0)
              /\ (~didReset /\ prevReset /\ lastDur < FrameInterval)
                     => ClampedSleep(sleep) = FrameInterval - lastDur
    /\ l_pc = "loop_test" => (0 <= Debt /\ Debt <= FrameInterval)

\* a stalled frame made the loop reset, and the next frame, a short one, is about to
\* sleep the rest of its interval
C20_Witness ==
    /\ l_pc = "sleep"
    /\ prevReset /\ ~didReset
    /\ lastDur < FrameInterval
    /\ sleep > 0

\* C21: the loop never runs ahead of the frame rate: after the pacing of a frame, the
\* time since the reference clock is at least one interval for every frame counted
\* since the last reset, and the time since the loop began is at least one interval for
\* every frame run
C21_NeverAheadOfFrameRate ==
    l_pc = "loop_test"
        => /\ now - start >= frames * FrameInterval
           /\ now >= advanced * FrameInterval

\* MaxFrames frames that took no time, no reset: exactly MaxFrames intervals have passed
C21_Witness ==
    /\ l_pc = "loop_test"
    /\ advanced = MaxFrames
    /\ frames = advanced
    /\ lastDur = 0
    /\ now = advanced * FrameInterval

\* C22: the first call of the frame time callback gets the reference interval, every
\* later call the microseconds since the call before (the clock counts milliseconds)
C22_FrameTimeArgument ==
    frame_time_call.count > 0
        => IF frame_time_call.count = 1
           THEN frame_time_call.usec = frame_time_call.reference
           ELSE frame_time_call.usec = frame_time_call.elapsed * 1000

\* C24 (as stated): in every run state the return value of audio_write is at most the
\* frames offered and equals the frames that were enqueued
C24_ReturnsFramesAccepted ==
    audio_write_call.count > 0
        => /\ audio_write_call.returned <= audio_write_call.frames
           /\ audio_write_call.returned = audio_write_call.enqueued

\* C24 (amended): the return value is at most the frames offered; while the context is
\* running it equals the frames that were enqueued, and once the run flag is cleared
\* audio_write enqueues nothing and returns the frames offered
C24_ReturnsAcceptedWhileRunning ==
    audio_write_call.count > 0
        => /\ audio_write_call.returned <= audio_write_call.frames
           /\ IF audio_write_call.running
              THEN audio_write_call.returned = audio_write_call.enqueued
              ELSE /\ audio_write_call.enqueued = 0
                   /\ audio_write_call.returned = audio_write_call.frames

\* audio_write was called after Shutdown, inside retro_run, and the core took the
\* frame as written
C24_Witness ==
    /\ audio_write_call.count > 0
    /\ ~audio_write_call.running
    /\ audio_write_call.frames > 0
    /\ audio_write_call.returned = audio_write_call.frames
    /\ audio_write_call.enqueued = 0
    /\ l_pc = "in_frame" /\ audioLeft = 0

\* C25: an unrecognized command returns false and changes nothing, and whenever
\* core_environment returns false it has changed nothing of the context
C25_FalseMeansUntouched ==
    env_call.count > 0
        => /\ ~env_call.recognized => (~env_call.ret /\ ~env_call.changed)
           /\ ~env_call.ret => ~env_call.changed

\* a step of the thread of runtime r that calls into its module
ModuleCall(r) ==
    \/ ThreadLoadSRAM(r)
    \/ CallbackEnd(r)
    \/ TaskSerialize(r)
    \/ TaskEnd(r)
    \/ ThreadSaveSRAM(r)

\* operations of runtime r that are inside the module (memory access or unserialize)
InModule(r) == {o \in OpIds : ops[o].rt = r /\ ops[o].kind # "SaveState" /\ ops[o].st = "io"}

\* the operation the thread of runtime r is executing, if any
ThreadAt(r) ==
    IF rtpc[r] = "cb_io" THEN {cbOp[r]}
    ELSE IF Draining(r) THEN {Head(queue[r])}
    ELSE {}

BufferBefore(o) == IF o \in OpIds THEN ops[o].buf ELSE NoData

\* C23: the module of a runtime is called by the runtime's own thread only, one call at
\* a time: its state and save memory change in steps of that thread, a snapshot buffer
\* is filled by serialize in a task on that thread, and the worker's file write takes
\* the buffer, not the module
C23_ModuleOnOwnThread ==
    /\ [](\A r \in Runtimes : InModule(r) \subseteq ThreadAt(r))
    /\ [][\A r \in Runtimes :
            /\ (mstate'[r] # mstate[r] \/ sram'[r] # sram[r]) => ModuleCall(r)
            /\ \A o \in 1..Len(ops') :
                    (ops'[o].rt = r /\ ops'[o].buf # BufferBefore(o))
                        => (TaskSerialize(r) /\ ops'[o].buf = mstate[r])
            /\ \A o \in OpIds :
                    (ops[o].rt = r /\ WriteEnd(o)) => file'[ops[o].path] = ops[o].buf]_vars

\* the worker writes the snapshot of a runtime from the buffer while the thread of the
\* same runtime is inside unserialize
C23_Witness ==
    \E o1, o2 \in OpIds :
        /\ ops[o1].rt = ops[o2].rt
        /\ ops[o1].kind = "SaveState" /\ ops[o1].st = "io"
        /\ ops[o1].buf = mstate[ops[o1].rt]
        /\ ops[o2].kind = "LoadState" /\ ops[o2].st = "io"
        /\ ThreadAt(ops[o2].rt) = {o2}

\* C26: when the save memory file is missing, neither the direct read of the thread nor
\* the LoadSRAM operation of the loaded callback touches the module's save memory, the
\* operation is completed all the same, and the thread goes on to the run loop
C26_MissingSRAMIsNoError ==
    [][\A r \in Runtimes :
        /\ (rtpc[r] = "spawned" /\ rtpc'[r] # "spawned" /\ file[SRAMPath] = NoFile)
                => (sram'[r] = sram[r] /\ rtpc'[r] = "loaded")
        /\ (rtpc[r] = "cb_io" /\ rtpc'[r] # "cb_io" /\ file[SRAMPath] = NoFile)
                => /\ sram'[r] = sram[r]
                   /\ ops'[cbOp[r]].st = "done"
                   /\ rtpc'[r] = "loop"]_vars

\* a runtime is in its run loop after a launch that found no save memory file
C26_Witness ==
    \E r \in Runtimes :
        /\ rtpc[r] \in {"loop", "drain"}
        /\ file[SRAMPath] = NoFile
        /\ ops[cbOp[r]].kind = "LoadSRAM"
        /\ ops[cbOp[r]].st = "done"
        /\ ops[cbOp[r]].failed

\* C27: the LoadState operation hands the file to unserialize exactly when the file
\* could be read: with no file the module state stays as it is, and a file that is
\* there is handed over whole, whatever its length
C27_UnserializeIffRead ==
    [][\A o \in OpIds :
        (ops[o].kind = "LoadState" /\ ops[o].st = "io" /\ ops'[o].st = "done")
            => IF file[ops[o].path] = NoFile
               THEN mstate' = mstate /\ ops'[o].got = NoData /\ ops'[o].failed
               ELSE /\ ops'[o].got = file[ops[o].path]
                    /\ mstate'[ops[o].rt] = file[ops[o].path]
                    /\ ~ops'[o].failed]_vars

\* a runtime has loaded a snapshot of another size
C27_Witness ==
    \E o \in OpIds :
        /\ ops[o].kind = "LoadState" /\ ops[o].st = "done"
        /\ ~ops[o].failed
        /\ SizeDiffers(ops[o].rt, ops[o].got)
        /\ mstate[ops[o].rt] = ops[o].got

\* C28: whenever the module of a runtime holds the trampolines of an entry of
\* func_wrap_table, before and after retro_init, the handlers installed in that entry
\* are the runtime's own: no trampoline can be called while its handler is unset
C28_BoundBeforeRegistered ==
    \A t \in Threads :
        (CanInvoke(t) /\ callback_instance[t] # INDEX_NONE)
            => func_wrap_table[callback_instance[t]] = t

\* a second runtime has registered the trampolines of an entry that an earlier runtime
\* used and gave back
C28_Witness ==
    \E t1, t2 \in Threads :
        /\ t1 # t2
        /\ tpc[t1] = "released"
        /\ tpc[t2] = "registered"
        /\ callback_instance[t1] = callback_instance[t2]
        /\ func_wrap_table[callback_instance[t2]] = t2

\* C29: an entry of func_wrap_table that no live runtime holds has no handlers
C29_FreeSlotUnbound ==
    \A t \in Threads :
        (/\ tpc[t] = "released"
         /\ callback_instance[t] # INDEX_NONE
         /\ HoldersOf(callback_instance[t]) = {}
         /\ OthersHold(callback_instance[t]) = 0)
            => func_wrap_table[callback_instance[t]] = NoThread

\* C30: every operation scheduled on the chain is completed in the end
C30_EveryOperationCompletes ==
    \A o \in 1..MaxCalls : (o \in OpIds) ~> (o \in OpIds /\ ops[o].st = "done")

C32_WriteAfterSerializeAndPredecessor ==
    [][\A o \in OpIds :
        ops[o].kind = "SaveState" =>
            /\ (ops[o].st # "io" /\ ops'[o].st = "io")
                    => /\ ops[o].buf # NoData
                       /\ ~Queued(o)
                       /\ ops[o].pred # NoEvent => ops[ops[o].pred].st = "done"
            /\ ops[o].st = "io" => ops'[o].buf = ops[o].buf
            /\ (ops[o].st # "done" /\ ops'[o].st = "done")
                    => /\ ops[o].st = "io"
                       /\ file'[ops[o].path] = ops[o].buf]_vars

\* a save that had a predecessor on its path has written its buffer
C32_Witness ==
    \E o \in OpIds :
        /\ ops[o].kind = "SaveState"
        /\ ops[o].st = "done"
        /\ ops[o].pred # NoEvent
        /\ ops[o].buf # NoData
        /\ file[ops[o].path] = ops[o].buf
        /\ fileBy[ops[o].path] = o

\* runtimes of a core that are alive: those launched earlier and the threads that have
\* passed the allocation block and not yet the release block
LiveOf(core) == {t \in Threads : Holding(t) /\ tcore[t] = core}

\* C33: the set bits of the global array are as many as the live runtimes holding an
\* index of it, and the set bits of a core's array as many as the live runtimes of
\* that core
C33_BitsMatchLiveRuntimes ==
    ~crashed =>
        /\ Cardinality(AllocatedInstances)
              = OthersTotal(others)
                + Cardinality({t \in Threads : Holding(t) /\ InstanceNumber[t] # INDEX_NONE})
        /\ \A core \in Cores :
              Cardinality(PerCoreAllocatedInstances[core])
                  = others[core] + Cardinality(LiveOf(core))


\* a step in which a call of the component's API returned at NOT_LAUNCHED_GUARD
GuardReturned == api_call' # api_call /\ api_call'.guarded

\* C34: Pause, Shutdown, LoadState and SaveState called on a component with no
\* launched core have no effect: no task is enqueued, no chain entry is created or
\* replaced, no operation is scheduled, and Paused, CoreInstance and every runtime
\* stay as they were; so a Shutdown directly after a Shutdown is a no-op.
C34_NotLaunchedHasNoEffect ==
    [][GuardReturned =>
          /\ CoreInstance[api_call'.c] = NoRuntime
          /\ queue' = queue
          /\ LastIOTask' = LastIOTask
          /\ ops' = ops
          /\ Paused' = Paused
          /\ CoreInstance' = CoreInstance
          /\ rt_paused' = rt_paused
          /\ running' = running]_vars

\* a Shutdown that found no core directly after the Shutdown that stopped the only
\* runtime: the third call after Launch and Shutdown
C34_Witness ==
    /\ api_call.fn = "Shutdown" /\ api_call.guarded /\ api_call.n = calls
    /\ calls = 3 /\ nextRuntime = 1
    /\ \A c \in Components : ~destroyed[c] /\ CoreInstance[c] = NoRuntime
    /\ rtpc[1] # "none" /\ ~running[1]

\* a step in which the editor's delegate was broadcast
EditorEvent == editor_paused' # editor_paused

\* the runtime of every listening component is paused as asked after the step
RuntimesPausedAs(asked) ==
    \A c \in Components :
        (~destroyed[c] /\ CoreInstance[c] # NoRuntime)
            => (rt_paused'[CoreInstance[c]] = asked[c])

\* C35 as stated: after an editor pause followed by an editor resume the runtime
\* is paused exactly when the last value passed to Pause is true.
C35_PausedAsLastPassed ==
    [][(EditorEvent /\ ~editor_paused')
          => \A c \in Components :
                (~destroyed[c] /\ CoreInstance[c] # NoRuntime /\ pause_arg[c].called)
                    => (rt_paused'[CoreInstance[c]] = pause_arg[c].value)]_vars

\* C35: editor pause and resume do not change the user's pause choice. An editor
\* pause pauses every launched runtime and leaves Paused alone; an editor resume
\* leaves every launched runtime paused exactly when Paused is true; and Paused is
\* the last value passed to a Pause that found a launched core, whatever Pause
\* calls are interleaved with the editor's events.
C35_EditorKeepsPauseChoice ==
    [][/\ EditorEvent => Paused' = Paused
       /\ (EditorEvent /\ editor_paused')
             => RuntimesPausedAs([c \in Components |-> TRUE])
       /\ (EditorEvent /\ ~editor_paused') => RuntimesPausedAs(Paused)
       /\ (api_call' # api_call /\ api_call'.fn = "Pause" /\ ~api_call'.guarded)
             => /\ Paused'[api_call'.c] = api_call'.arg
                /\ rt_paused'[CoreInstance[api_call'.c]] = api_call'.arg
       /\ Paused' # Paused
             => (api_call' # api_call /\ api_call'.fn = "Pause" /\ ~api_call'.guarded)]_vars

\* the editor resumed after the user's Pause(true) on a launched core, and the
\* runtime stayed paused
C35_Witness ==
    /\ api_call.fn = "ResumePIE" /\ api_call.n = calls
    /\ \E c \in Components :
          /\ ~destroyed[c] /\ CoreInstance[c] # NoRuntime
          /\ Paused[c] /\ pause_arg[c].called /\ pause_arg[c].value
          /\ rt_paused[CoreInstance[c]]

====
